---- MODULE Spec2Model ----
(***************************************************************************)
(* Model of the partner ledger, the tier registry and the distribution     *)
(* engine of InvestmentDB (src/database.py) together with the distribution *)
(* request handler (src/app.py).                                           *)
(*                                                                         *)
(* Tables are functions from row id to row.  Every public method runs in   *)
(* one sqlite transaction (`with self.get_connection() as conn`): an       *)
(* exception rolls every write of the call back, so an action either       *)
(* installs all of its writes or none.  REAL columns are modelled exactly: *)
(* integers where the inputs are integers, reduced fractions <<n, d>> for  *)
(* every value the code obtains by division (floating-point rounding is    *)
(* not modelled).  `result` is the outcome of the call that returned last; *)
(* `inflight` holds the calls that have started and not returned, each     *)
(* with what it has read so far (none where the calls run one at a time).  *)
(* The reads a method makes before its first write see the state committed *)
(* at their moment; they matter where callers run at the same time and are *)
(* separate steps there.                                                   *)
(***************************************************************************)
EXTENDS Integers, Sequences, FiniteSets, TLC

VARIABLES projects, partners, partner_tiers, partner_tier_assignments,
          distributions, operation_logs, sqlite_sequence, result, inflight

vars == <<projects, partners, partner_tiers, partner_tier_assignments,
          distributions, operation_logs, sqlite_sequence, result, inflight>>

(***************************************************************************)
(* Bounds of the model.                                                    *)
(***************************************************************************)
MaxProjects == 2
MaxPartners == 3
MaxLogs == 4
\* partners of the project a distribution is calculated for
MaxSnapshotPartners == 2
\* distributions calculated in one run
MaxDistributions == 1
MaxTiers == 2
\* audit entries of the tier operations
MaxTierLogs == 4
\* callers that use the database at the same time, each on its own connection
MaxCallers == 2

(***************************************************************************)
(* Exact arithmetic on reduced fractions <<n, d>>, d > 0.                  *)
(***************************************************************************)
Abs(x) == IF x < 0 THEN -x ELSE x

RECURSIVE GCD(_, _)
GCD(a, b) == IF b = 0 THEN a ELSE GCD(b, a % b)

Frac(n, d) ==
    LET s == IF d < 0 THEN -1 ELSE 1
        g == GCD(Abs(n), Abs(d))
    IN  <<(s * n) \div g, (s * d) \div g>>

R(x) == <<x, 1>>
RAdd(a, b) == Frac(a[1] * b[2] + b[1] * a[2], a[2] * b[2])
RSub(a, b) == Frac(a[1] * b[2] - b[1] * a[2], a[2] * b[2])
RMul(a, b) == Frac(a[1] * b[1], a[2] * b[2])
RDiv(a, b) == Frac(a[1] * b[2], a[2] * b[1])
RLt(a, b) == a[1] * b[2] < b[1] * a[2]
RMin(a, b) == IF RLt(b, a) THEN b ELSE a
RZero == R(0)

(***************************************************************************)
(* Python values handed to the methods.  Text is a sequence of             *)
(* one-character strings; a number argument is a record telling whether it *)
(* is None, a non-numeric string or a number.                              *)
(***************************************************************************)
None == [kind |-> "none", v |-> 0]
NotANumber == [kind |-> "str", v |-> 0]
Num(x) == [kind |-> "num", v |-> x]

\* a float with a fractional part, h/2 for an odd h (handed to int() only)
Halves(h) == [kind |-> "halves", v |-> h]

\* float(x): raises TypeError for None and ValueError for non-numeric text.
Float(x) == [ok |-> x.kind = "num", v |-> x.v]

\* int(x): raises like float(x) for None and text and truncates a float
\* towards zero
IntOf(x) ==
    [ok |-> x.kind \in {"num", "halves"},
     v |-> IF x.kind = "halves"
           THEN (IF x.v >= 0 THEN x.v \div 2 ELSE -((-x.v) \div 2))
           ELSE x.v]

\* faulty variant: the number is not checked
InvalidAmountNever(x) == FALSE

\* float(x) raises, or `investment_float < 0`
InvalidAmount(x) == ~Float(x).ok \/ Float(x).v < 0

NoText == <<"None">>
IsWhite(c) == c = " "

RECURSIVE LStrip(_)
LStrip(s) == IF s # <<>> /\ IsWhite(s[1]) THEN LStrip(Tail(s)) ELSE s

RECURSIVE RStrip(_)
RStrip(s) ==
    IF s # <<>> /\ IsWhite(s[Len(s)]) THEN RStrip(SubSeq(s, 1, Len(s) - 1)) ELSE s

\* str.strip()
Strip(s) == RStrip(LStrip(s))

\* faulty variant: a name of spaces passes
IsBlankEmptyOnly(s) == s = <<>>

\* `not name or not name.strip()`
IsBlank(s) == s = <<>> \/ Strip(s) = <<>>

(***************************************************************************)
(* Table helpers.                                                          *)
(***************************************************************************)
Insert(table, id, row) == [i \in DOMAIN table \cup {id} |-> IF i = id THEN row ELSE table[i]]
Delete(table, ids) == [i \in DOMAIN table \ ids |-> table[i]]

\* rows of a project in the partners table
ProjectPartners(par, pid) == {i \in DOMAIN par : par[i].project_id = pid}

RECURSIVE SumInvestment(_, _)
SumInvestment(par, ids) ==
    IF ids = {} THEN 0
    ELSE LET i == CHOOSE j \in ids : TRUE
         IN  par[i].investment + SumInvestment(par, ids \ {i})

LogEntry(pid, type) == [project_id |-> pid, operation_type |-> type]

NoResult == [op |-> "none", arg |-> 0, status |-> "none", raised_at |-> "none", value |-> 0,
             amount |-> 0, management_fee |-> RZero, remaining_amount |-> RZero,
             details |-> <<>>]
Ok(op, arg, value) ==
    [NoResult EXCEPT !.op = op, !.arg = arg, !.status = "ok", !.value = value]
Raise(op, arg, error, at) ==
    [NoResult EXCEPT !.op = op, !.arg = arg, !.status = error, !.raised_at = at]

(***************************************************************************)
(* _update_project_total: the project's total and every partner's share.   *)
(***************************************************************************)
\* faulty variant: the ratio is not scaled to a percentage
SharePercentageFraction(investment, total_investment) ==
    RDiv(R(investment), R(total_investment))

SharePercentage(investment, total_investment) ==
    RMul(RDiv(R(investment), R(total_investment)), R(100))

\* faulty variant: a zero sum does not overwrite the stored total
UpdateProjectTotalKeepsTotal(prj, par, pid) ==
    LET total_investment == SumInvestment(par, ProjectPartners(par, pid))
        prj2 == [i \in DOMAIN prj |->
                    IF i = pid /\ total_investment > 0
                    THEN [prj[i] EXCEPT !.total_investment = total_investment]
                    ELSE prj[i]]
        par2 == [i \in DOMAIN par |->
                    IF par[i].project_id # pid THEN par[i]
                    ELSE IF total_investment > 0
                         THEN [par[i] EXCEPT !.share_percentage =
                                  RMul(RDiv(R(par[i].investment), R(total_investment)),
                                       R(100))]
                         ELSE [par[i] EXCEPT !.share_percentage = RZero]]
    IN  [projects |-> prj2, partners |-> par2]

\* faulty variant: the shares are recomputed, the stored total is not written
UpdateProjectTotalSharesOnly(prj, par, pid) ==
    LET total_investment == SumInvestment(par, ProjectPartners(par, pid))
        par2 == [i \in DOMAIN par |->
                    IF par[i].project_id # pid THEN par[i]
                    ELSE IF total_investment > 0
                         THEN [par[i] EXCEPT !.share_percentage =
                                  RMul(RDiv(R(par[i].investment), R(total_investment)),
                                       R(100))]
                         ELSE [par[i] EXCEPT !.share_percentage = RZero]]
    IN  [projects |-> prj, partners |-> par2]

\* faulty variant: the shares are taken against the total stored before the run
UpdateProjectTotalStaleTotal(prj, par, pid) ==
    LET total_investment == SumInvestment(par, ProjectPartners(par, pid))
        stored == IF pid \in DOMAIN prj THEN prj[pid].total_investment ELSE 0
        prj2 == [i \in DOMAIN prj |->
                    IF i = pid THEN [prj[i] EXCEPT !.total_investment = total_investment]
                    ELSE prj[i]]
        par2 == [i \in DOMAIN par |->
                    IF par[i].project_id # pid THEN par[i]
                    ELSE IF stored > 0
                         THEN [par[i] EXCEPT !.share_percentage =
                                  RMul(RDiv(R(par[i].investment), R(stored)), R(100))]
                         ELSE [par[i] EXCEPT !.share_percentage = RZero]]
    IN  [projects |-> prj2, partners |-> par2]

UpdateProjectTotal(prj, par, pid) ==
    LET total_investment == SumInvestment(par, ProjectPartners(par, pid))
        prj2 == [i \in DOMAIN prj |->
                    IF i = pid THEN [prj[i] EXCEPT !.total_investment = total_investment]
                    ELSE prj[i]]
        par2 == [i \in DOMAIN par |->
                    IF par[i].project_id # pid THEN par[i]
                    ELSE IF total_investment > 0
                         THEN [par[i] EXCEPT !.share_percentage =
                                  SharePercentage(par[i].investment, total_investment)]
                         ELSE [par[i] EXCEPT !.share_percentage = RZero]]
    IN  [projects |-> prj2, partners |-> par2]

(***************************************************************************)
(* Initial state: the database right after init_database().                *)
(***************************************************************************)
EmptyTable == [i \in {} |-> 0]

\* no call is in flight
NoCalls == <<>>

Init ==
    /\ projects = EmptyTable
    /\ partners = EmptyTable
    /\ partner_tiers = EmptyTable
    /\ partner_tier_assignments = EmptyTable
    /\ distributions = EmptyTable
    /\ operation_logs = <<>>
    /\ sqlite_sequence = [projects |-> 0, partners |-> 0, partner_tiers |-> 0,
                          partner_tier_assignments |-> 0, distributions |-> 0]
    /\ result = NoResult
    /\ inflight = NoCalls

\* faulty variant: the audit entry of a failed call survives
WritesNothingButLog(r) ==
    /\ result' = r
    /\ operation_logs' = Append(operation_logs, LogEntry(r.arg, r.op))
    /\ UNCHANGED <<projects, partners, partner_tiers, partner_tier_assignments,
                   distributions, sqlite_sequence, inflight>>

\* a call that writes nothing: an exception rolls the transaction back, and a
\* method that finds nothing to do returns without a write
WritesNothing(r) ==
    /\ result' = r
    /\ UNCHANGED <<projects, partners, partner_tiers, partner_tier_assignments,
                   distributions, operation_logs, sqlite_sequence, inflight>>

\* MaxLogs bounds the audit entries of the ledger operations
IsLedgerLog(entry) ==
    entry.operation_type \in {"CREATE_PROJECT", "ADD_PARTNER", "UPDATE_PARTNER",
                              "DELETE_PARTNER", "DELETE_PROJECT"}
CanLog == Len(SelectSeq(operation_logs, IsLedgerLog)) < MaxLogs

(***************************************************************************)
(* create_project                                                          *)
(***************************************************************************)
CreateProject(name) ==
    IF IsBlank(name)
    THEN WritesNothing(Raise("create_project", 0, "ValueError", "validate"))
    ELSE /\ CanLog
         /\ sqlite_sequence.projects < MaxProjects
         /\ LET project_id == sqlite_sequence.projects + 1
            IN  /\ projects' = Insert(projects, project_id,
                                      [name |-> Strip(name), total_investment |-> 0])
                /\ sqlite_sequence' = [sqlite_sequence EXCEPT !.projects = project_id]
                /\ operation_logs' = Append(operation_logs,
                                            LogEntry(project_id, "CREATE_PROJECT"))
                /\ result' = Ok("create_project", 0, project_id)
         /\ UNCHANGED <<partners, partner_tiers, partner_tier_assignments, distributions,
                        inflight>>

(***************************************************************************)
(* add_partner                                                             *)
(***************************************************************************)
AddPartner(project_id, name, investment, contact_info, notes) ==
    IF IsBlank(name)
    THEN WritesNothing(Raise("add_partner", project_id, "ValueError", "validate"))
    ELSE IF investment.kind = "none"
    THEN WritesNothing(Raise("add_partner", project_id, "ValueError", "validate"))
    ELSE IF InvalidAmount(investment)
    THEN WritesNothing(Raise("add_partner", project_id, "ValueError", "validate"))
    ELSE IF project_id \notin DOMAIN projects
    THEN \* FOREIGN KEY (project_id) REFERENCES projects
         WritesNothing(Raise("add_partner", project_id, "IntegrityError", "insert"))
    ELSE /\ CanLog
         /\ sqlite_sequence.partners < MaxPartners
         /\ LET partner_id == sqlite_sequence.partners + 1
                inserted == Insert(partners, partner_id,
                                   [project_id |-> project_id, name |-> Strip(name),
                                    investment |-> Float(investment).v,
                                    share_percentage |-> RZero,
                                    contact_info |-> Strip(contact_info),
                                    notes |-> Strip(notes)])
                updated == UpdateProjectTotal(projects, inserted, project_id)
            IN  /\ partners' = updated.partners
                /\ projects' = updated.projects
                /\ sqlite_sequence' = [sqlite_sequence EXCEPT !.partners = partner_id]
                /\ operation_logs' = Append(operation_logs,
                                            LogEntry(project_id, "ADD_PARTNER"))
                /\ result' = Ok("add_partner", project_id, partner_id)
         /\ UNCHANGED <<partner_tiers, partner_tier_assignments, distributions, inflight>>

(***************************************************************************)
(* update_partner: NoText stands for an argument left at None.             *)
(***************************************************************************)
\* faulty variant: a text argument left at None is written too
SuppliedAlways(text) == TRUE

\* `name is not None`
Supplied(text) == text # NoText

UpdatePartner(partner_id, name, investment, contact_info, notes) ==
    IF partner_id \notin DOMAIN partners
    THEN WritesNothing(Raise("update_partner", partner_id, "ValueError", "lookup"))
    ELSE IF Supplied(name) /\ Strip(name) = <<>>
    THEN WritesNothing(Raise("update_partner", partner_id, "ValueError", "validate"))
    ELSE IF investment.kind # "none" /\ InvalidAmount(investment)
    THEN WritesNothing(Raise("update_partner", partner_id, "ValueError", "validate"))
    ELSE IF /\ ~Supplied(name)
            /\ investment.kind = "none"
            /\ ~Supplied(contact_info)
            /\ ~Supplied(notes)
    THEN \* `if updates:` is false: nothing is written
         WritesNothing(Ok("update_partner", partner_id, 0))
    ELSE /\ CanLog
         /\ LET old_partner == partners[partner_id]
                row == [old_partner EXCEPT
                          !.name = IF Supplied(name) THEN Strip(name) ELSE @,
                          !.investment = IF investment.kind # "none"
                                         THEN Float(investment).v ELSE @,
                          !.contact_info = IF Supplied(contact_info)
                                           THEN Strip(contact_info) ELSE @,
                          !.notes = IF Supplied(notes) THEN Strip(notes) ELSE @]
                updated == UpdateProjectTotal(projects, Insert(partners, partner_id, row),
                                              old_partner.project_id)
            IN  /\ partners' = updated.partners
                /\ projects' = updated.projects
                /\ operation_logs' = Append(operation_logs,
                                            LogEntry(old_partner.project_id, "UPDATE_PARTNER"))
                /\ result' = Ok("update_partner", partner_id, 0)
         /\ UNCHANGED <<partner_tiers, partner_tier_assignments, distributions,
                        sqlite_sequence, inflight>>

(***************************************************************************)
(* delete_partner                                                          *)
(***************************************************************************)
\* faulty variants: the guard is off by one, the guard is missing
IsLastPartnerOffByOne(count) == count <= 0
IsLastPartnerNever(count) == FALSE

\* `if count <= 1: raise ValueError`
IsLastPartner(count) == count <= 1

DeletePartner(partner_id) ==
    IF partner_id \notin DOMAIN partners
    THEN \* `if partner:` is false: the method returns normally
         WritesNothing(Ok("delete_partner", partner_id, 0))
    ELSE LET partner == partners[partner_id]
             count == Cardinality(ProjectPartners(partners, partner.project_id))
         IN  IF IsLastPartner(count)
             THEN WritesNothing(Raise("delete_partner", partner_id, "ValueError", "validate"))
             ELSE /\ CanLog
                  /\ LET updated == UpdateProjectTotal(projects,
                                                       Delete(partners, {partner_id}),
                                                       partner.project_id)
                     IN  /\ partners' = updated.partners
                         /\ projects' = updated.projects
                  \* FOREIGN KEY (partner_id) ... ON DELETE CASCADE
                  /\ partner_tier_assignments' =
                        Delete(partner_tier_assignments,
                               {a \in DOMAIN partner_tier_assignments :
                                   partner_tier_assignments[a].partner_id = partner_id})
                  /\ operation_logs' = Append(operation_logs,
                                              LogEntry(partner.project_id, "DELETE_PARTNER"))
                  /\ result' = Ok("delete_partner", partner_id, 0)
                  /\ UNCHANGED <<partner_tiers, distributions, sqlite_sequence, inflight>>

(***************************************************************************)
(* delete_project: the foreign keys cascade to partners, tiers,            *)
(* assignments and distributions.                                          *)
(***************************************************************************)
DeleteProject(project_id) ==
    IF project_id \notin DOMAIN projects
    THEN WritesNothing(Ok("delete_project", project_id, 0))
    ELSE /\ CanLog
         /\ LET gonePartners == ProjectPartners(partners, project_id)
                goneTiers == {t \in DOMAIN partner_tiers :
                                 partner_tiers[t].project_id = project_id}
            IN  /\ projects' = Delete(projects, {project_id})
                /\ partners' = Delete(partners, gonePartners)
                /\ partner_tiers' = Delete(partner_tiers, goneTiers)
                /\ partner_tier_assignments' =
                      Delete(partner_tier_assignments,
                             {a \in DOMAIN partner_tier_assignments :
                                 \/ partner_tier_assignments[a].partner_id \in gonePartners
                                 \/ partner_tier_assignments[a].tier_id \in goneTiers})
                /\ distributions' =
                      Delete(distributions,
                             {d \in DOMAIN distributions :
                                 distributions[d].project_id = project_id})
         /\ operation_logs' = Append(operation_logs, LogEntry(project_id, "DELETE_PROJECT"))
         /\ result' = Ok("delete_project", project_id, 0)
         /\ UNCHANGED <<sqlite_sequence, inflight>>

(***************************************************************************)
(* create_partner_tier: the values are stored as given, without a check.   *)
(***************************************************************************)
IsTierLog(entry) ==
    entry.operation_type \in {"CREATE_TIER", "UPDATE_TIER", "DELETE_TIER", "ASSIGN_TIER"}
CanLogTier == Len(SelectSeq(operation_logs, IsTierLog)) < MaxTierLogs

CreatePartnerTier(project_id, tier_name, management_fee_rate, performance_fee_rate, priority) ==
    IF project_id \notin DOMAIN projects
    THEN \* FOREIGN KEY (project_id) REFERENCES projects
         WritesNothing(Raise("create_partner_tier", project_id, "IntegrityError", "insert"))
    ELSE /\ CanLogTier
         /\ sqlite_sequence.partner_tiers < MaxTiers
         /\ LET tier_id == sqlite_sequence.partner_tiers + 1
            IN  /\ partner_tiers' =
                      Insert(partner_tiers, tier_id,
                             [project_id |-> project_id, tier_name |-> tier_name,
                              management_fee_rate |-> management_fee_rate,
                              performance_fee_rate |-> performance_fee_rate,
                              priority |-> priority])
                /\ sqlite_sequence' = [sqlite_sequence EXCEPT !.partner_tiers = tier_id]
                /\ operation_logs' = Append(operation_logs,
                                            LogEntry(project_id, "CREATE_TIER"))
                /\ result' = Ok("create_partner_tier", project_id, tier_id)
         /\ UNCHANGED <<projects, partners, partner_tier_assignments, distributions,
                        inflight>>

(***************************************************************************)
(* update_partner_tier: None stands for an argument that is not supplied   *)
(* (NoText for the name); description takes the path of the name without   *)
(* a check and is not stored in the model.                                 *)
(***************************************************************************)
\* float(x) raises, or `rate < 0 or rate > 100`
InvalidRate(x) == ~Float(x).ok \/ Float(x).v < 0 \/ Float(x).v > 100

\* int(x) raises, or `priority_int < 0`
InvalidPriority(x) == ~IntOf(x).ok \/ IntOf(x).v < 0

UpdatePartnerTier(tier_id, tier_name, management_fee_rate, performance_fee_rate, priority) ==
    IF tier_id \notin DOMAIN partner_tiers
    THEN WritesNothing(Raise("update_partner_tier", tier_id, "ValueError", "lookup"))
    ELSE IF Supplied(tier_name) /\ Strip(tier_name) = <<>>
    THEN WritesNothing(Raise("update_partner_tier", tier_id, "ValueError", "validate"))
    ELSE IF management_fee_rate.kind # "none" /\ InvalidRate(management_fee_rate)
    THEN WritesNothing(Raise("update_partner_tier", tier_id, "ValueError", "validate"))
    ELSE IF performance_fee_rate.kind # "none" /\ InvalidRate(performance_fee_rate)
    THEN WritesNothing(Raise("update_partner_tier", tier_id, "ValueError", "validate"))
    ELSE IF priority.kind # "none" /\ InvalidPriority(priority)
    THEN WritesNothing(Raise("update_partner_tier", tier_id, "ValueError", "validate"))
    ELSE IF /\ ~Supplied(tier_name)
            /\ management_fee_rate.kind = "none"
            /\ performance_fee_rate.kind = "none"
            /\ priority.kind = "none"
    THEN \* `if updates:` is false: nothing is written
         WritesNothing(Ok("update_partner_tier", tier_id, 0))
    ELSE /\ CanLogTier
         /\ LET old_tier == partner_tiers[tier_id]
                row == [old_tier EXCEPT
                          !.tier_name = IF Supplied(tier_name) THEN Strip(tier_name) ELSE @,
                          !.management_fee_rate =
                              IF management_fee_rate.kind # "none"
                              THEN Float(management_fee_rate).v ELSE @,
                          !.performance_fee_rate =
                              IF performance_fee_rate.kind # "none"
                              THEN Float(performance_fee_rate).v ELSE @,
                          !.priority = IF priority.kind # "none"
                                       THEN IntOf(priority).v ELSE @]
            IN  /\ partner_tiers' = Insert(partner_tiers, tier_id, row)
                /\ operation_logs' = Append(operation_logs,
                                            LogEntry(old_tier.project_id, "UPDATE_TIER"))
                /\ result' = Ok("update_partner_tier", tier_id, 0)
         /\ UNCHANGED <<projects, partners, partner_tier_assignments, distributions,
                        sqlite_sequence, inflight>>

(***************************************************************************)
(* delete_tier                                                             *)
(***************************************************************************)
\* faulty variant: the assignments of the tier are not counted
TierAssignmentCountZero(tier_id) == 0

\* SELECT COUNT(*) FROM partner_tier_assignments WHERE tier_id = ?
TierAssignmentCount(tier_id) ==
    Cardinality({a \in DOMAIN partner_tier_assignments :
                    partner_tier_assignments[a].tier_id = tier_id})

DeleteTier(tier_id) ==
    IF tier_id \notin DOMAIN partner_tiers
    THEN \* `if tier:` is false: the method returns normally
         WritesNothing(Ok("delete_tier", tier_id, 0))
    ELSE LET count == TierAssignmentCount(tier_id)
         IN  IF count > 0
             THEN \* the message of the error carries the count
                  WritesNothing([Raise("delete_tier", tier_id, "ValueError", "validate")
                                    EXCEPT !.value = count])
             ELSE /\ CanLogTier
                  /\ partner_tiers' = Delete(partner_tiers, {tier_id})
                  \* FOREIGN KEY (tier_id) ... ON DELETE CASCADE
                  /\ partner_tier_assignments' =
                        Delete(partner_tier_assignments,
                               {a \in DOMAIN partner_tier_assignments :
                                   partner_tier_assignments[a].tier_id = tier_id})
                  /\ operation_logs' =
                        Append(operation_logs,
                               LogEntry(partner_tiers[tier_id].project_id, "DELETE_TIER"))
                  /\ result' = Ok("delete_tier", tier_id, 0)
                  /\ UNCHANGED <<projects, partners, distributions, sqlite_sequence,
                                 inflight>>

(***************************************************************************)
(* assign_partner_to_tier                                                  *)
(***************************************************************************)
\* faulty variant: a second assignment is inserted next to the existing one
ExistingAssignmentsNone(partner_id) == {}

\* SELECT id, tier_id FROM partner_tier_assignments WHERE partner_id = ?
ExistingAssignments(partner_id) ==
    {a \in DOMAIN partner_tier_assignments :
        partner_tier_assignments[a].partner_id = partner_id}

\* faulty variant: the projects of the partner and of the tier are not compared
SameProjectAlways(partner, tier) == TRUE

\* `partner['project_id'] != tier['project_id']` is false
SameProject(partner, tier) == partner.project_id = tier.project_id

\* faulty variant: the commitment is booked as the partner's investment
AssignPartnerToTierInvests(partner_id, tier_id, commitment_amount, distribution_share) ==
    /\ ~InvalidAmount(commitment_amount)
    /\ ~InvalidRate(distribution_share)
    /\ partner_id \in DOMAIN partners
    /\ tier_id \in DOMAIN partner_tiers
    /\ CanLogTier
    /\ LET assignment_id == sqlite_sequence.partner_tier_assignments + 1
           invested == [partners EXCEPT
                           ![partner_id].investment = Float(commitment_amount).v]
           updated == UpdateProjectTotal(projects, invested,
                                         partners[partner_id].project_id)
       IN  /\ partner_tier_assignments' =
                 Insert(Delete(partner_tier_assignments, ExistingAssignments(partner_id)),
                        assignment_id,
                        [partner_id |-> partner_id, tier_id |-> tier_id,
                         commitment_amount |-> Float(commitment_amount).v,
                         distribution_share |-> Float(distribution_share).v])
           /\ sqlite_sequence' =
                 [sqlite_sequence EXCEPT !.partner_tier_assignments = assignment_id]
           /\ partners' = updated.partners
           /\ projects' = updated.projects
    /\ operation_logs' = Append(operation_logs,
                                LogEntry(partners[partner_id].project_id, "ASSIGN_TIER"))
    /\ result' = Ok("assign_partner_to_tier", partner_id, tier_id)
    /\ UNCHANGED <<partner_tiers, distributions, inflight>>

AssignPartnerToTier(partner_id, tier_id, commitment_amount, distribution_share) ==
    IF InvalidAmount(commitment_amount)
    THEN WritesNothing(Raise("assign_partner_to_tier", partner_id, "ValueError", "validate"))
    ELSE IF InvalidRate(distribution_share)
    THEN WritesNothing(Raise("assign_partner_to_tier", partner_id, "ValueError", "validate"))
    ELSE IF partner_id \notin DOMAIN partners
    THEN WritesNothing(Raise("assign_partner_to_tier", partner_id, "ValueError", "lookup"))
    ELSE IF tier_id \notin DOMAIN partner_tiers
    THEN WritesNothing(Raise("assign_partner_to_tier", partner_id, "ValueError", "lookup"))
    ELSE IF ~SameProject(partners[partner_id], partner_tiers[tier_id])
    THEN WritesNothing(Raise("assign_partner_to_tier", partner_id, "ValueError", "project"))
    ELSE /\ CanLogTier
         /\ LET existing == ExistingAssignments(partner_id)
                row == [partner_id |-> partner_id, tier_id |-> tier_id,
                        commitment_amount |-> Float(commitment_amount).v,
                        distribution_share |-> Float(distribution_share).v]
                assignment_id == sqlite_sequence.partner_tier_assignments + 1
            IN  IF existing # {}
                THEN \* UPDATE partner_tier_assignments SET ... WHERE partner_id = ?
                     /\ partner_tier_assignments' =
                           [a \in DOMAIN partner_tier_assignments |->
                               IF a \in existing THEN row ELSE partner_tier_assignments[a]]
                     /\ UNCHANGED sqlite_sequence
                ELSE /\ partner_tier_assignments' =
                           Insert(partner_tier_assignments, assignment_id, row)
                     /\ sqlite_sequence' =
                           [sqlite_sequence EXCEPT
                               !.partner_tier_assignments = assignment_id]
         /\ operation_logs' = Append(operation_logs,
                                     LogEntry(partners[partner_id].project_id, "ASSIGN_TIER"))
         /\ result' = Ok("assign_partner_to_tier", partner_id, tier_id)
         /\ UNCHANGED <<projects, partners, partner_tiers, distributions, inflight>>

(***************************************************************************)
(* calculate_distribution: the joined partner rows.                        *)
(***************************************************************************)
\* str.upper() on the characters tier names are written with
UpperChar(c) ==
    CASE c = "g" -> "G"
      [] c = "p" -> "P"
      [] c = "c" -> "C"
      [] c = "o" -> "O"
      [] c = "l" -> "L"
      [] OTHER -> c

Upper(s) == [i \in 1..Len(s) |-> UpperChar(s[i])]

\* `sub in s`
Contains(s, sub) ==
    \E i \in 1..(Len(s) - Len(sub) + 1) : SubSeq(s, i, i + Len(sub) - 1) = sub

\* Python truth of a nullable number: None and 0 are false
Truthy(x) == x.kind = "num" /\ x.v # 0

\* faulty variant: the match is case-sensitive
IsGPCaseSensitive(tier_name) ==
    /\ tier_name # NoText
    /\ tier_name # <<>>
    /\ Contains(tier_name, <<"G", "P">>)

\* `p['tier_name'] and 'GP' in p['tier_name'].upper()`
IsGP(tier_name) ==
    /\ tier_name # NoText
    /\ tier_name # <<>>
    /\ Contains(Upper(tier_name), <<"G", "P">>)

\* partners p LEFT JOIN partner_tier_assignments a LEFT JOIN partner_tiers t
\* WHERE p.project_id = ?: one <<partner id, assignment id>> per joined row,
\* assignment id 0 where the partner has no assignment
JoinedKeys(project_id) ==
    UNION {
        LET as == {a \in DOMAIN partner_tier_assignments :
                      partner_tier_assignments[a].partner_id = p}
        IN  IF as = {} THEN {<<p, 0>>} ELSE {<<p, a>> : a \in as}
        : p \in ProjectPartners(partners, project_id)}

JoinedRow(k) ==
    LET p == partners[k[1]]
        assigned == k[2] # 0
        a == partner_tier_assignments[k[2]]
        t == partner_tiers[a.tier_id]
    IN  [partner_id |-> k[1],
         assignment_id |-> k[2],
         investment |-> p.investment,
         tier_name |-> IF assigned THEN t.tier_name ELSE NoText,
         management_fee_rate |-> IF assigned THEN Num(t.management_fee_rate) ELSE None,
         performance_fee_rate |-> IF assigned THEN Num(t.performance_fee_rate) ELSE None,
         priority |-> IF assigned THEN Num(t.priority) ELSE None,
         \* COALESCE(a.distribution_share, 0)
         distribution_share |-> IF assigned THEN a.distribution_share ELSE 0]

\* ORDER BY t.priority, p.id: NULL sorts before every number
RowBefore(r1, r2) ==
    LET null1 == r1.priority.kind = "none"
        null2 == r2.priority.kind = "none"
    IN  IF null1 # null2 THEN null1
        ELSE IF ~null1 /\ r1.priority.v # r2.priority.v THEN r1.priority.v < r2.priority.v
        ELSE IF r1.partner_id # r2.partner_id THEN r1.partner_id < r2.partner_id
        ELSE r1.assignment_id < r2.assignment_id

RECURSIVE OrderRows(_)
OrderRows(rows) ==
    IF rows = {} THEN <<>>
    ELSE LET first == CHOOSE r \in rows : \A o \in rows \ {r} : RowBefore(r, o)
         IN  <<first>> \o OrderRows(rows \ {first})

\* faulty variant: ORDER BY p.id alone
RECURSIVE OrderRowsById(_)
OrderRowsById(rows) ==
    IF rows = {} THEN <<>>
    ELSE LET first == CHOOSE r \in rows :
                          \A o \in rows \ {r} :
                              \/ r.partner_id < o.partner_id
                              \/ r.partner_id = o.partner_id
                                 /\ r.assignment_id < o.assignment_id
         IN  <<first>> \o OrderRowsById(rows \ {first})

PartnerRowsById(project_id) ==
    OrderRowsById({JoinedRow(k) : k \in JoinedKeys(project_id)})

PartnerRows(project_id) == OrderRows({JoinedRow(k) : k \in JoinedKeys(project_id)})

(***************************************************************************)
(* calculate_distribution: the three stages.                               *)
(***************************************************************************)
Item(row, type, amount, percentage) ==
    [partner_id |-> row.partner_id, tier |-> row.tier_name, type |-> type,
     amount |-> amount, percentage |-> percentage]

\* `fee = distribution_amount * (gp['management_fee_rate'] / 100)`
Fee(distribution_amount, rate) == RMul(R(distribution_amount), RDiv(R(rate), R(100)))

\* stage 1: one management_fee item per GP row with a positive rate
RECURSIVE Stage1(_, _)
Stage1(rows, distribution_amount) ==
    IF rows = <<>> THEN <<>>
    ELSE LET gp == Head(rows)
             rest == Stage1(Tail(rows), distribution_amount)
         IN  IF /\ IsGP(gp.tier_name)
                /\ Truthy(gp.management_fee_rate)
                /\ gp.management_fee_rate.v > 0
             THEN <<Item(gp, "management_fee",
                         Fee(distribution_amount, gp.management_fee_rate.v),
                         R(gp.management_fee_rate.v))>> \o rest
             ELSE rest

RECURSIVE SumAmounts(_)
SumAmounts(items) ==
    IF items = <<>> THEN RZero ELSE RAdd(items[1].amount, SumAmounts(Tail(items)))

\* faulty variant: the return is not capped by the invested capital
ReturnOfCapitalUncapped(remaining_amount, total_investment) == remaining_amount

\* `return_of_capital = min(remaining_amount, total_investment)`
ReturnOfCapital(remaining_amount, total_investment) ==
    RMin(remaining_amount, R(total_investment))

\* stage 2: one return_of_capital item per row with a positive investment
RECURSIVE Stage2(_, _, _)
Stage2(rows, total_investment, return_of_capital) ==
    IF rows = <<>> THEN <<>>
    ELSE LET partner == Head(rows)
             rest == Stage2(Tail(rows), total_investment, return_of_capital)
             share == RDiv(R(partner.investment), R(total_investment))
         IN  IF partner.investment > 0
             THEN <<Item(partner, "return_of_capital", RMul(return_of_capital, share),
                         RMul(share, R(100)))>> \o rest
             ELSE rest

\* faulty variant: distribution_share is looked at before performance_fee_rate
CarryRuleShareFirst(partner) ==
    IF partner.distribution_share # 0 /\ partner.distribution_share > 0
    THEN "distribution_share"
    ELSE IF Truthy(partner.performance_fee_rate) /\ partner.performance_fee_rate.v > 0
    THEN "performance_fee_rate"
    ELSE IF partner.investment > 0
    THEN "investment"
    ELSE "none"

\* stage 3: which rule gives a row its carry weight ("none": not eligible)
CarryRule(partner) ==
    IF Truthy(partner.performance_fee_rate) /\ partner.performance_fee_rate.v > 0
    THEN "performance_fee_rate"
    ELSE IF partner.distribution_share # 0 /\ partner.distribution_share > 0
    THEN "distribution_share"
    ELSE IF partner.investment > 0
    THEN "investment"
    ELSE "none"

\* the weight (`share`) of an eligible row
CarryShare(partner, total_investment) ==
    CASE CarryRule(partner) = "performance_fee_rate" ->
            RDiv(R(partner.performance_fee_rate.v), R(100))
      [] CarryRule(partner) = "distribution_share" ->
            RDiv(R(partner.distribution_share), R(100))
      [] OTHER -> RDiv(R(partner.investment), R(total_investment))

\* eligible_partners, in row order
RECURSIVE Eligible(_, _)
Eligible(rows, total_investment) ==
    IF rows = <<>> THEN <<>>
    ELSE LET partner == Head(rows)
             rest == Eligible(Tail(rows), total_investment)
         IN  IF CarryRule(partner) # "none"
             THEN <<[partner |-> partner, share |-> CarryShare(partner, total_investment)]>>
                  \o rest
             ELSE rest

RECURSIVE SumShares(_)
SumShares(eligible) ==
    IF eligible = <<>> THEN RZero ELSE RAdd(eligible[1].share, SumShares(Tail(eligible)))

\* faulty variant: the weights are not normalised by their sum
NormalisedShareRaw(share, total_share) == share

\* `share = eligible['share'] / total_share`
NormalisedShare(share, total_share) == RDiv(share, total_share)

RECURSIVE Stage3(_, _, _)
Stage3(eligible, total_share, remaining_amount) ==
    IF eligible = <<>> THEN <<>>
    ELSE LET share == NormalisedShare(eligible[1].share, total_share)
         IN  <<Item(eligible[1].partner, "performance_fee", RMul(remaining_amount, share),
                    RMul(share, R(100)))>>
             \o Stage3(Tail(eligible), total_share, remaining_amount)

\* faulty variant: the capital returns are listed before the fees
DetailsCapitalFirst(stage1, stage2, stage3) == stage2 \o stage1 \o stage3

\* distribution_details: the items in the order the stages append them
Details(stage1, stage2, stage3) == stage1 \o stage2 \o stage3

\* `partner['investment'] / total_investment` with total_investment = 0
DividesByZero(rows, total_investment) ==
    /\ total_investment = 0
    /\ \E i \in 1..Len(rows) : CarryRule(rows[i]) = "investment"

\* lines 1027-1111: the computation between the reads and the INSERT
Waterfall(rows, total_investment, distribution_amount) ==
    LET stage1 == Stage1(rows, distribution_amount)
        management_fee == SumAmounts(stage1)
        remaining1 == RSub(R(distribution_amount), management_fee)
        return_of_capital == ReturnOfCapital(remaining1, total_investment)
        returns == total_investment > 0 /\ RLt(RZero, return_of_capital)
        stage2 == IF returns THEN Stage2(rows, total_investment, return_of_capital)
                  ELSE <<>>
        remaining2 == IF returns THEN RSub(remaining1, return_of_capital) ELSE remaining1
        carries == RLt(RZero, remaining2)
        raises == DividesByZero(rows, total_investment) /\ carries
        eligible == IF carries /\ ~raises THEN Eligible(rows, total_investment) ELSE <<>>
        total_share == SumShares(eligible)
        stage3 == IF RLt(RZero, total_share)
                  THEN Stage3(eligible, total_share, remaining2) ELSE <<>>
    IN  [raises |-> raises,
         management_fee |-> management_fee,
         remaining_amount |-> remaining2,
         details |-> Details(stage1, stage2, stage3)]

(***************************************************************************)
(* calculate_distribution                                                  *)
(***************************************************************************)
\* faulty variant: a project has one record, which a later calculation for
\* the project overwrites
CalculateDistributionRewrites(project_id, distribution_amount) ==
    LET total_investment == IF project_id \in DOMAIN projects
                            THEN projects[project_id].total_investment ELSE 0
        w == Waterfall(PartnerRows(project_id), total_investment, distribution_amount)
        mine == {d \in DOMAIN distributions : distributions[d].project_id = project_id}
        distribution_id == IF mine = {} THEN sqlite_sequence.distributions + 1
                           ELSE CHOOSE d \in mine : TRUE
    IN  /\ project_id \in DOMAIN projects
        /\ ~w.raises
        /\ mine = {} => sqlite_sequence.distributions < MaxDistributions
        /\ distributions' = Insert(distributions, distribution_id,
                                   [project_id |-> project_id,
                                    total_amount |-> distribution_amount,
                                    details |-> w.details])
        /\ sqlite_sequence' = IF mine = {}
                              THEN [sqlite_sequence EXCEPT !.distributions = distribution_id]
                              ELSE sqlite_sequence
        /\ operation_logs' = IF mine = {}
                             THEN Append(operation_logs,
                                         LogEntry(project_id, "CALCULATE_DISTRIBUTION"))
                             ELSE operation_logs
        /\ result' = [op |-> "calculate_distribution", arg |-> project_id,
                      status |-> "ok", raised_at |-> "none", value |-> distribution_id,
                      amount |-> distribution_amount,
                      management_fee |-> w.management_fee,
                      remaining_amount |-> w.remaining_amount, details |-> w.details]
        /\ UNCHANGED <<projects, partners, partner_tiers, partner_tier_assignments,
                       inflight>>

CalculateDistribution(project_id, distribution_amount) ==
    LET total_investment == IF project_id \in DOMAIN projects
                            THEN projects[project_id].total_investment ELSE 0
        w == Waterfall(PartnerRows(project_id), total_investment, distribution_amount)
    IN  IF w.raises
        THEN WritesNothing(Raise("calculate_distribution", project_id, "ZeroDivisionError", "stage3"))
        ELSE IF project_id \notin DOMAIN projects
        THEN \* FOREIGN KEY (project_id) REFERENCES projects on the INSERT
             WritesNothing(Raise("calculate_distribution", project_id, "IntegrityError", "persist"))
        ELSE /\ sqlite_sequence.distributions < MaxDistributions
             /\ LET distribution_id == sqlite_sequence.distributions + 1
                IN  /\ distributions' =
                          Insert(distributions, distribution_id,
                                 [project_id |-> project_id,
                                  total_amount |-> distribution_amount,
                                  details |-> w.details])
                    /\ sqlite_sequence' =
                          [sqlite_sequence EXCEPT !.distributions = distribution_id]
                    /\ result' = [op |-> "calculate_distribution", arg |-> project_id,
                                  status |-> "ok",
                                  raised_at |-> "none",
                                  value |-> distribution_id,
                                  amount |-> distribution_amount,
                                  management_fee |-> w.management_fee,
                                  remaining_amount |-> w.remaining_amount,
                                  details |-> w.details]
             /\ operation_logs' = Append(operation_logs,
                                         LogEntry(project_id, "CALCULATE_DISTRIBUTION"))
             /\ UNCHANGED <<projects, partners, partner_tiers, partner_tier_assignments,
                            inflight>>

(***************************************************************************)
(* handle_distribution, POST: the request handler in front of              *)
(* calculate_distribution.                                                 *)
(***************************************************************************)
HandleDistribution(project_id, distribution_amount) ==
    IF project_id = 0
    THEN \* `if not project_id:`
         WritesNothing(Raise("handle_distribution", project_id, "InvalidProjectId", "route"))
    ELSE IF ~Float(distribution_amount).ok
    THEN WritesNothing(Raise("handle_distribution", project_id, "ValueError", "validate"))
    ELSE IF Float(distribution_amount).v <= 0
    THEN WritesNothing(Raise("handle_distribution", project_id, "ValueError", "validate"))
    ELSE \* the outcome of the call is the handler's response
         CalculateDistribution(project_id, Float(distribution_amount).v)

(***************************************************************************)
(* handle_project_tiers, POST: the request handler in front of             *)
(* create_partner_tier.  It converts the rates with float() and the        *)
(* priority with int() and hands them on without a check of their range.   *)
(***************************************************************************)
HandleProjectTiers(project_id, tier_name, management_fee_rate, performance_fee_rate, priority) ==
    IF project_id = 0
    THEN \* `if not project_id:`
         WritesNothing(Raise("handle_project_tiers", project_id, "InvalidProjectId", "route"))
    ELSE IF \/ ~Float(management_fee_rate).ok
            \/ ~Float(performance_fee_rate).ok
            \/ ~IntOf(priority).ok
    THEN \* `except Exception as e:` around the conversions and the call
         WritesNothing(Raise("handle_project_tiers", project_id, "ValueError", "validate"))
    ELSE CreatePartnerTier(project_id, tier_name, Float(management_fee_rate).v,
                           Float(performance_fee_rate).v, IntOf(priority).v)

(***************************************************************************)
(* Arguments the ledger operations are called with.                        *)
(***************************************************************************)
ProjectIds == 1..(MaxProjects + 1)
PartnerIds == 1..(MaxPartners + 1)
Names == {<<>>, <<" ">>, <<"A", " ">>}
Investments == {None, NotANumber, Num(-1), Num(0), Num(100), Num(300)}

CreateProjectCall == \E name \in Names : CreateProject(name)
AddPartnerCall ==
    \E project_id \in ProjectIds, name \in Names, investment \in Investments :
        AddPartner(project_id, name, investment, <<>>, <<>>)
UpdatePartnerCall ==
    \E partner_id \in PartnerIds, name \in Names \cup {NoText}, investment \in Investments :
        UpdatePartner(partner_id, name, investment, NoText, NoText)
DeletePartnerCall == \E partner_id \in PartnerIds : DeletePartner(partner_id)
DeleteProjectCall == \E project_id \in ProjectIds : DeleteProject(project_id)

Next ==
    \/ CreateProjectCall
    \/ AddPartnerCall
    \/ UpdatePartnerCall
    \/ DeletePartnerCall
    \/ DeleteProjectCall

Spec == Init /\ [][Next]_vars

(***************************************************************************)
(* The distribution engine on a populated database: one project with its   *)
(* partners, two tiers and the partners' assignments, as create_project,   *)
(* add_partner, create_partner_tier and assign_partner_to_tier leave them. *)
(***************************************************************************)
SnapshotInvestments == {0, 100, 300}

Tier(name, management_fee_rate, performance_fee_rate, priority) ==
    [project_id |-> 1, tier_name |-> name,
     management_fee_rate |-> management_fee_rate,
     performance_fee_rate |-> performance_fee_rate, priority |-> priority]

Tier1Choices ==
    {Tier(<<"C", "o", "-", "g", "p">>, 10, 0, 1),
     Tier(<<"C", "o", "-", "g", "p">>, 0, 20, 1),
     Tier(<<"C", "o", "-", "g", "p">>, -5, -5, 1),
     Tier(<<"L", "P">>, 10, 20, 1)}
Tier2Choices == {Tier(<<"G", "P">>, 60, 0, 0)}

\* no assignment, or <<tier id, distribution_share>>
AssignmentChoices == {<<0, 0>>, <<1, 50>>, <<2, 0>>}

RECURSIVE AssignmentRows(_, _, _)
AssignmentRows(choice, p, nextId) ==
    IF p > Len(choice) THEN EmptyTable
    ELSE IF choice[p][1] = 0 THEN AssignmentRows(choice, p + 1, nextId)
    ELSE Insert(AssignmentRows(choice, p + 1, nextId + 1), nextId,
                [partner_id |-> p, tier_id |-> choice[p][1],
                 commitment_amount |-> 0, distribution_share |-> choice[p][2]])

InitDistribution ==
    \E n \in 1..MaxSnapshotPartners :
    \E investment \in [1..n -> SnapshotInvestments],
       choice \in [1..n -> AssignmentChoices],
       tier1 \in Tier1Choices, tier2 \in Tier2Choices :
        LET inserted == [p \in 1..n |->
                            [project_id |-> 1, name |-> <<"A">>,
                             investment |-> investment[p], share_percentage |-> RZero,
                             contact_info |-> <<>>, notes |-> <<>>]]
            updated == UpdateProjectTotal(
                           Insert(EmptyTable, 1, [name |-> <<"A">>, total_investment |-> 0]),
                           inserted, 1)
            assignments == AssignmentRows(choice, 1, 1)
            assigned == Cardinality(DOMAIN assignments)
        IN  /\ projects = updated.projects
            /\ partners = updated.partners
            /\ partner_tiers = Insert(Insert(EmptyTable, 1, tier1), 2, tier2)
            /\ partner_tier_assignments = assignments
            /\ distributions = EmptyTable
            /\ operation_logs =
                  <<LogEntry(1, "CREATE_PROJECT")>>
                  \o [i \in 1..n |-> LogEntry(1, "ADD_PARTNER")]
                  \o [i \in 1..2 |-> LogEntry(1, "CREATE_TIER")]
                  \o [i \in 1..assigned |-> LogEntry(1, "ASSIGN_TIER")]
            /\ sqlite_sequence = [projects |-> 1, partners |-> n, partner_tiers |-> 2,
                                  partner_tier_assignments |-> assigned,
                                  distributions |-> 0]
            /\ result = NoResult
            /\ inflight = NoCalls

DistributionAmounts == {-5, 200, 1000}

CalculateDistributionCall ==
    \E project_id \in 1..2, distribution_amount \in DistributionAmounts :
        CalculateDistribution(project_id, distribution_amount)
HandleDistributionCall ==
    \E request \in {<<0, Num(1000)>>, <<2, Num(1000)>>}
                   \cup {<<1, amount>> : amount \in {NotANumber, Num(0)}
                                            \cup {Num(x) : x \in DistributionAmounts}} :
        HandleDistribution(request[1], request[2])

NextDistribution ==
    \/ CalculateDistributionCall
    \/ HandleDistributionCall

SpecDistribution == InitDistribution /\ [][NextDistribution]_vars

(***************************************************************************)
(* update_partner with every subset of its four fields, on a project with  *)
(* its partners as create_project and add_partner leave them.              *)
(***************************************************************************)
StoredTexts == {<<>>, <<"c">>}

InitUpdate ==
    \E n \in 1..MaxSnapshotPartners :
    \E contact_info \in [1..n -> StoredTexts], notes \in [1..n -> StoredTexts] :
        LET inserted == [p \in 1..n |->
                            [project_id |-> 1, name |-> <<"A">>,
                             investment |-> 100 * p, share_percentage |-> RZero,
                             contact_info |-> contact_info[p], notes |-> notes[p]]]
            updated == UpdateProjectTotal(
                           Insert(EmptyTable, 1, [name |-> <<"S">>, total_investment |-> 0]),
                           inserted, 1)
        IN  /\ projects = updated.projects
            /\ partners = updated.partners
            /\ partner_tiers = EmptyTable
            /\ partner_tier_assignments = EmptyTable
            /\ distributions = EmptyTable
            /\ operation_logs = <<LogEntry(1, "CREATE_PROJECT")>>
                                    \o [i \in 1..n |-> LogEntry(1, "ADD_PARTNER")]
            /\ sqlite_sequence = [projects |-> 1, partners |-> n, partner_tiers |-> 0,
                                  partner_tier_assignments |-> 0, distributions |-> 0]
            /\ result = NoResult
            /\ inflight = NoCalls

UpdateNames == {NoText, <<"B", " ">>}
UpdateInvestments == {None, Num(200)}
UpdateContacts == {NoText, <<" ", "d">>}
UpdateNotes == {NoText, <<>>}

UpdateFieldsCall ==
    \E partner_id \in 1..(MaxSnapshotPartners + 1), name \in UpdateNames,
       investment \in UpdateInvestments, contact_info \in UpdateContacts,
       notes \in UpdateNotes :
        UpdatePartner(partner_id, name, investment, contact_info, notes)
AddContactCall == AddPartner(1, <<"C">>, Num(100), <<"c", " ">>, <<" ">>)

NextUpdate ==
    \/ UpdateFieldsCall
    \/ AddContactCall

SpecUpdate == InitUpdate /\ [][NextUpdate]_vars

(***************************************************************************)
(* The tier registry on two projects: the partners 1 and 2 of project 1,   *)
(* partner 3 of project 2, a tier of project 1 and a tier of either        *)
(* project, as create_project, add_partner and create_partner_tier leave   *)
(* them.                                                                   *)
(***************************************************************************)
InitTiers ==
    \E tier_project \in 1..2 :
        LET n == 2
            inserted == [p \in 1..(n + 1) |->
                            [project_id |-> IF p <= n THEN 1 ELSE 2, name |-> <<"A">>,
                             investment |-> 100, share_percentage |-> RZero,
                             contact_info |-> <<>>, notes |-> <<>>]]
            created == [i \in 1..2 |-> [name |-> <<"S">>, total_investment |-> 0]]
            first == UpdateProjectTotal(created, inserted, 1)
            updated == UpdateProjectTotal(first.projects, first.partners, 2)
        IN  /\ projects = updated.projects
            /\ partners = updated.partners
            /\ partner_tiers =
                  Insert(Insert(EmptyTable, 1, Tier(<<"G", "P">>, 5, 0, 0)), 2,
                         [Tier(<<"L", "P">>, 0, 20, 1) EXCEPT !.project_id = tier_project])
            /\ partner_tier_assignments = EmptyTable
            /\ distributions = EmptyTable
            /\ operation_logs =
                  [i \in 1..2 |-> LogEntry(i, "CREATE_PROJECT")]
                  \o [p \in 1..(n + 1) |-> LogEntry(inserted[p].project_id, "ADD_PARTNER")]
                  \o <<LogEntry(1, "CREATE_TIER"), LogEntry(tier_project, "CREATE_TIER")>>
            /\ sqlite_sequence = [projects |-> 2, partners |-> n + 1, partner_tiers |-> 2,
                                  partner_tier_assignments |-> 0, distributions |-> 0]
            /\ result = NoResult
            /\ inflight = NoCalls

TierIds == 1..3

\* <<tier_name, management_fee_rate, performance_fee_rate, priority>>
UpdateTierRequests ==
    {<<NoText, None, None, None>>,
     <<<<" ">>, Num(10), None, None>>,
     <<<<"L", "P", " ">>, Num(-1), None, None>>,
     <<NoText, Num(10), Num(101), None>>,
     <<<<"L", "P", " ">>, None, None, Num(-1)>>,
     <<NoText, Num(10), None, NotANumber>>,
     <<NoText, None, None, Halves(3)>>,
     <<<<"L", "P", " ">>, Num(10), None, Num(2)>>}

\* <<commitment_amount, distribution_share>>
AssignRequests ==
    {<<Num(-1), Num(30)>>, <<Num(50), NotANumber>>, <<Num(50), Num(-1)>>,
     <<Num(50), Num(101)>>, <<Num(50), Num(30)>>, <<Num(0), Num(0)>>}

UpdateTierCall ==
    \E tier_id \in TierIds, request \in UpdateTierRequests :
        UpdatePartnerTier(tier_id, request[1], request[2], request[3], request[4])
DeleteTierCall == \E tier_id \in TierIds : DeleteTier(tier_id)
AssignCall ==
    \E partner_id \in 1..4, tier_id \in TierIds, request \in AssignRequests :
        AssignPartnerToTier(partner_id, tier_id, request[1], request[2])

NextTiers ==
    \/ UpdateTierCall
    \/ DeleteTierCall
    \/ AssignCall

SpecTiers == InitTiers /\ [][NextTiers]_vars

(***************************************************************************)
(* The end-to-end scenario, from the empty database: a project, the        *)
(* partners Alice (600) and Bob (400), a tier "GP" with a management fee   *)
(* rate of 5, assignments with distribution_share 0 and a distribution of  *)
(* 500, in every order and number the calls can be made in.                *)
(***************************************************************************)
Alice == <<"A", "l">>
Bob == <<"B", "o">>
ScenarioPartners == {<<Alice, 600>>, <<Bob, 400>>}
ScenarioAmount == 500

ScenarioCreateProject == CreateProject(<<"S">>)
ScenarioAddPartner ==
    \E project_id \in 1..MaxProjects, partner \in ScenarioPartners :
        AddPartner(project_id, partner[1], Num(partner[2]), <<>>, <<>>)
ScenarioCreateTier ==
    \E project_id \in 1..MaxProjects :
        CreatePartnerTier(project_id, <<"G", "P">>, 5, 0, 0)
\* Alice is assigned to a tier
ScenarioAssign ==
    \E partner_id \in DOMAIN partners, tier_id \in 1..MaxTiers :
        /\ partners[partner_id].name = Alice
        /\ AssignPartnerToTier(partner_id, tier_id, Num(0), Num(0))
ScenarioCalculate ==
    \E project_id \in 1..MaxProjects :
        CalculateDistribution(project_id, ScenarioAmount)

NextScenario ==
    \/ ScenarioCreateProject
    \/ ScenarioAddPartner
    \/ ScenarioCreateTier
    \/ ScenarioAssign
    \/ ScenarioCalculate

SpecScenario == Init /\ [][NextScenario]_vars

(***************************************************************************)
(* The ledger, the tier registry and the distribution engine together, on  *)
(* one project with its partners as create_project and add_partner leave   *)
(* them: tiers are created through the request handler, changed, assigned  *)
(* and deleted, distributions are calculated and a partner's investment is *)
(* changed, in every order.                                                *)
(***************************************************************************)
InitEngine ==
        LET n == 2
            inserted == [p \in 1..n |->
                            [project_id |-> 1, name |-> <<"A">>,
                             investment |-> IF p = 1 THEN 600 ELSE 400,
                             share_percentage |-> RZero,
                             contact_info |-> <<>>, notes |-> <<>>]]
            updated == UpdateProjectTotal(
                           Insert(EmptyTable, 1, [name |-> <<"S">>, total_investment |-> 0]),
                           inserted, 1)
        IN  /\ projects = updated.projects
            /\ partners = updated.partners
            /\ partner_tiers = Insert(EmptyTable, 1, Tier(<<"G", "P">>, 5, 0, 1))
            /\ partner_tier_assignments =
                  Insert(EmptyTable, 1, [partner_id |-> 1, tier_id |-> 1,
                                         commitment_amount |-> 0, distribution_share |-> 0])
            /\ distributions = EmptyTable
            /\ operation_logs =
                  <<LogEntry(1, "CREATE_PROJECT")>>
                  \o [i \in 1..n |-> LogEntry(1, "ADD_PARTNER")]
                  \o <<LogEntry(1, "CREATE_TIER"), LogEntry(1, "ASSIGN_TIER")>>
            /\ sqlite_sequence = [projects |-> 1, partners |-> n, partner_tiers |-> 1,
                                  partner_tier_assignments |-> 1, distributions |-> 0]
            /\ result = NoResult
            /\ inflight = NoCalls

EngineCreateTier ==
    \E project_id \in 1..2 :
        HandleProjectTiers(project_id, <<"L", "P">>, Num(150), Num(-5), Num(-1))
EngineUpdateTier ==
    \E tier_id \in 1..2 : UpdatePartnerTier(tier_id, NoText, None, None, Num(0))
EngineDeleteTier == \E tier_id \in 1..2 : DeleteTier(tier_id)
EngineAssign ==
    \E partner_id \in 1..2, tier_id \in 1..2 :
        AssignPartnerToTier(partner_id, tier_id, Num(0), Num(30))
EngineCalculate ==
    \E project_id \in 1..2 : CalculateDistribution(project_id, 2000)
EngineUpdatePartner == UpdatePartner(2, NoText, Num(300), NoText, NoText)

NextEngine ==
    \/ EngineCreateTier
    \/ EngineUpdateTier
    \/ EngineDeleteTier
    \/ EngineAssign
    \/ EngineCalculate
    \/ EngineUpdatePartner

SpecEngine == InitEngine /\ [][NextEngine]_vars

(***************************************************************************)
(* Callers that use the database at the same time.  Every call opens its   *)
(* own connection; sqlite3 begins a transaction only in front of the first *)
(* INSERT, UPDATE or DELETE of a call, so each SELECT before it reads the  *)
(* state committed at that moment, and the statements from the first write *)
(* to the commit are one step (a single writer holds the database).  Each  *)
(* caller makes one call.                                                  *)
(***************************************************************************)
Callers == 1..MaxCallers

NoCall == [op |-> "none", pc |-> "idle", arg |-> 0, project_id |-> 0, count |-> 0,
           investment |-> 0, amount |-> 0, total_investment |-> 0, rows |-> <<>>]

\* caller c moves on to `pc` with what it has read
Proceeds(c, call, pc) ==
    /\ inflight' = [inflight EXCEPT ![c] = [call EXCEPT !.pc = pc]]
    /\ UNCHANGED result

\* caller c returns or raises
Returns(c, r) ==
    /\ inflight' = [inflight EXCEPT ![c].pc = "returned"]
    /\ result' = r

TablesUnchanged ==
    UNCHANGED <<projects, partners, partner_tiers, partner_tier_assignments,
                distributions, operation_logs, sqlite_sequence>>

\* delete_partner, lines 649-652: SELECT * FROM partners WHERE id = ?
DeletePartnerSelect(c, partner_id) ==
    /\ inflight[c].pc = "idle"
    /\ TablesUnchanged
    /\ IF partner_id \notin DOMAIN partners
       THEN /\ inflight' = [inflight EXCEPT
                               ![c] = [NoCall EXCEPT !.op = "delete_partner",
                                                     !.arg = partner_id,
                                                     !.pc = "returned"]]
            /\ result' = Ok("delete_partner", partner_id, 0)
       ELSE Proceeds(c, [NoCall EXCEPT !.op = "delete_partner", !.arg = partner_id,
                                       !.project_id = partners[partner_id].project_id],
                     "count")

\* delete_partner, lines 654-661: SELECT COUNT(*) and the last-partner check
DeletePartnerCount(c) ==
    /\ inflight[c].op = "delete_partner"
    /\ inflight[c].pc = "count"
    /\ TablesUnchanged
    /\ LET count == Cardinality(ProjectPartners(partners, inflight[c].project_id))
       IN  IF IsLastPartner(count)
           THEN Returns(c, Raise("delete_partner", inflight[c].arg, "ValueError",
                                 "validate"))
           ELSE Proceeds(c, [inflight[c] EXCEPT !.count = count], "delete")

\* delete_partner, lines 663-675: DELETE, _update_project_total, the audit
\* entry and the commit
DeletePartnerWrite(c) ==
    /\ inflight[c].op = "delete_partner"
    /\ inflight[c].pc = "delete"
    /\ LET partner_id == inflight[c].arg
           project_id == inflight[c].project_id
           updated == UpdateProjectTotal(projects, Delete(partners, {partner_id}),
                                         project_id)
       IN  /\ partners' = updated.partners
           /\ projects' = updated.projects
           /\ partner_tier_assignments' =
                 Delete(partner_tier_assignments,
                        {a \in DOMAIN partner_tier_assignments :
                            partner_tier_assignments[a].partner_id = partner_id})
           /\ operation_logs' = Append(operation_logs,
                                       LogEntry(project_id, "DELETE_PARTNER"))
           /\ Returns(c, Ok("delete_partner", partner_id, 0))
    /\ UNCHANGED <<partner_tiers, distributions, sqlite_sequence>>

\* update_partner(partner_id, investment=...), lines 589-609: SELECT * FROM
\* partners WHERE id = ? and the check of the investment
UpdatePartnerSelect(c, partner_id, investment) ==
    /\ inflight[c].pc = "idle"
    /\ TablesUnchanged
    /\ LET call == [NoCall EXCEPT !.op = "update_partner", !.arg = partner_id]
       IN  IF partner_id \notin DOMAIN partners
           THEN /\ inflight' = [inflight EXCEPT ![c] = [call EXCEPT !.pc = "returned"]]
                /\ result' = Raise("update_partner", partner_id, "ValueError", "lookup")
           ELSE IF InvalidAmount(investment)
           THEN /\ inflight' = [inflight EXCEPT ![c] = [call EXCEPT !.pc = "returned"]]
                /\ result' = Raise("update_partner", partner_id, "ValueError", "validate")
           ELSE Proceeds(c, [call EXCEPT !.project_id = partners[partner_id].project_id,
                                         !.investment = Float(investment).v],
                         "update")

\* update_partner, lines 619-641: UPDATE ... WHERE id = ? (no row when the
\* partner is gone), _update_project_total, the audit entry and the commit
UpdatePartnerWrite(c) ==
    /\ inflight[c].op = "update_partner"
    /\ inflight[c].pc = "update"
    /\ LET partner_id == inflight[c].arg
           project_id == inflight[c].project_id
           written == [p \in DOMAIN partners |->
                          IF p = partner_id
                          THEN [partners[p] EXCEPT !.investment = inflight[c].investment]
                          ELSE partners[p]]
           updated == UpdateProjectTotal(projects, written, project_id)
       IN  /\ partners' = updated.partners
           /\ projects' = updated.projects
           /\ operation_logs' = Append(operation_logs,
                                       LogEntry(project_id, "UPDATE_PARTNER"))
           /\ Returns(c, Ok("update_partner", partner_id, 0))
    /\ UNCHANGED <<partner_tiers, partner_tier_assignments, distributions,
                   sqlite_sequence>>

\* calculate_distribution, lines 1002-1003: SELECT total_investment FROM projects
CalculateSelectProject(c, project_id, distribution_amount) ==
    /\ inflight[c].pc = "idle"
    /\ TablesUnchanged
    /\ Proceeds(c, [NoCall EXCEPT
                       !.op = "calculate_distribution", !.arg = project_id,
                       !.project_id = project_id, !.amount = distribution_amount,
                       !.total_investment =
                           IF project_id \in DOMAIN projects
                           THEN projects[project_id].total_investment ELSE 0],
                "partners")

\* calculate_distribution, lines 1006-1024: the partner rows
CalculateSelectPartners(c) ==
    /\ inflight[c].op = "calculate_distribution"
    /\ inflight[c].pc = "partners"
    /\ TablesUnchanged
    /\ Proceeds(c, [inflight[c] EXCEPT !.rows = PartnerRows(inflight[c].project_id)],
                "insert")

\* calculate_distribution, lines 1027-1138: the stages on what was read, the
\* INSERT of the record, the audit entry and the commit
CalculateInsert(c) ==
    /\ inflight[c].op = "calculate_distribution"
    /\ inflight[c].pc = "insert"
    /\ LET project_id == inflight[c].project_id
           w == Waterfall(inflight[c].rows, inflight[c].total_investment,
                          inflight[c].amount)
           distribution_id == sqlite_sequence.distributions + 1
       IN  IF w.raises
           THEN /\ TablesUnchanged
                /\ Returns(c, Raise("calculate_distribution", project_id,
                                    "ZeroDivisionError", "stage3"))
           ELSE IF project_id \notin DOMAIN projects
           THEN /\ TablesUnchanged
                /\ Returns(c, Raise("calculate_distribution", project_id,
                                    "IntegrityError", "persist"))
           ELSE /\ distributions' =
                      Insert(distributions, distribution_id,
                             [project_id |-> project_id,
                              total_amount |-> inflight[c].amount,
                              details |-> w.details])
                /\ sqlite_sequence' =
                      [sqlite_sequence EXCEPT !.distributions = distribution_id]
                /\ operation_logs' =
                      Append(operation_logs,
                             LogEntry(project_id, "CALCULATE_DISTRIBUTION"))
                /\ Returns(c, [op |-> "calculate_distribution", arg |-> project_id,
                               status |-> "ok", raised_at |-> "none",
                               value |-> distribution_id,
                               amount |-> inflight[c].amount,
                               management_fee |-> w.management_fee,
                               remaining_amount |-> w.remaining_amount,
                               details |-> w.details])
                /\ UNCHANGED <<projects, partners, partner_tiers,
                               partner_tier_assignments>>

\* one project with the partners 1 (600) and 2 (400), as create_project and
\* add_partner leave them, and no call started
InitConcurrent ==
    LET inserted == [p \in 1..2 |->
                        [project_id |-> 1, name |-> <<"A">>,
                         investment |-> IF p = 1 THEN 600 ELSE 400,
                         share_percentage |-> RZero,
                         contact_info |-> <<>>, notes |-> <<>>]]
        updated == UpdateProjectTotal(
                       Insert(EmptyTable, 1, [name |-> <<"S">>, total_investment |-> 0]),
                       inserted, 1)
    IN  /\ projects = updated.projects
        /\ partners = updated.partners
        /\ partner_tiers = EmptyTable
        /\ partner_tier_assignments = EmptyTable
        /\ distributions = EmptyTable
        /\ operation_logs = <<LogEntry(1, "CREATE_PROJECT"), LogEntry(1, "ADD_PARTNER"),
                              LogEntry(1, "ADD_PARTNER")>>
        /\ sqlite_sequence = [projects |-> 1, partners |-> 2, partner_tiers |-> 0,
                              partner_tier_assignments |-> 0, distributions |-> 0]
        /\ result = NoResult
        /\ inflight = [c \in Callers |-> NoCall]

ConcurrentDeleteSelect ==
    \E c \in Callers, partner_id \in 1..3 : DeletePartnerSelect(c, partner_id)
ConcurrentDeleteCount == \E c \in Callers : DeletePartnerCount(c)
ConcurrentDeleteWrite == \E c \in Callers : DeletePartnerWrite(c)
ConcurrentUpdateSelect ==
    \E c \in Callers, partner_id \in 1..3, investment \in {Num(300), Num(-1)} :
        UpdatePartnerSelect(c, partner_id, investment)
ConcurrentUpdateWrite == \E c \in Callers : UpdatePartnerWrite(c)
ConcurrentCalculateProject ==
    \E c \in Callers, project_id \in 1..2 : CalculateSelectProject(c, project_id, 2000)
ConcurrentCalculatePartners == \E c \in Callers : CalculateSelectPartners(c)
ConcurrentCalculateInsert == \E c \in Callers : CalculateInsert(c)

NextConcurrent ==
    \/ ConcurrentDeleteSelect
    \/ ConcurrentDeleteCount
    \/ ConcurrentDeleteWrite
    \/ ConcurrentUpdateSelect
    \/ ConcurrentUpdateWrite
    \/ ConcurrentCalculateProject
    \/ ConcurrentCalculatePartners
    \/ ConcurrentCalculateInsert

SpecConcurrent == InitConcurrent /\ [][NextConcurrent]_vars

(***************************************************************************)
(* get_connection: the retry loop every operation opens its connection     *)
(* with.  A call is at the connect of the loop body, asleep between two    *)
(* attempts, or over: it returned the connection, raised, or left the loop *)
(* and returned None.  The outcome of a connect is the environment's.      *)
(***************************************************************************)
\* `max_retries = 5`
max_retries == 5
\* `retry_delay = 0.1`, in milliseconds
retry_delay == 100

Connected == [type |-> "none", message |-> "none"]
Locked == [type |-> "OperationalError", message |-> "database is locked"]
\* what sqlite3.connect and the two PRAGMA statements return or raise
ConnectOutcomes ==
    {Connected, Locked,
     [type |-> "OperationalError", message |-> "unable to open database file"],
     [type |-> "DatabaseError", message |-> "file is not a database"]}

\* `except sqlite3.OperationalError as e: if "database is locked" in str(e)`
IsLockError(e) == e.type = "OperationalError" /\ e.message = "database is locked"

\* faulty variant: a locked database is retried whatever the attempt
MayRetryAlways(attempt) == TRUE

\* `attempt < max_retries - 1`
MayRetry(attempt) == attempt < max_retries - 1

\* `retry_delay * (2 ** attempt)`
RetryDelay(attempt) == retry_delay * (2 ^ attempt)

NoConnection == [op |-> "get_connection", pc |-> "idle", attempt |-> 0,
                 errors |-> <<>>, slept |-> <<>>]

\* the call enters the loop: `for attempt in range(max_retries)`
GetConnection(c) ==
    /\ inflight[c].pc = "idle"
    /\ inflight' = [inflight EXCEPT ![c].pc = "connect"]
    /\ UNCHANGED result
    /\ TablesUnchanged

\* lines 19-31: the try block and its handler
Connect(c, outcome) ==
    /\ inflight[c].pc = "connect"
    /\ TablesUnchanged
    /\ LET call == inflight[c]
           failed == [call EXCEPT !.errors = Append(call.errors, outcome)]
       IN  IF outcome = Connected
           THEN /\ inflight' = [inflight EXCEPT ![c].pc = "returned"]
                /\ result' = Ok("get_connection", c, call.attempt)
           ELSE IF IsLockError(outcome) /\ MayRetry(call.attempt)
           THEN /\ inflight' = [inflight EXCEPT ![c] = [failed EXCEPT !.pc = "sleep"]]
                /\ UNCHANGED result
           ELSE /\ inflight' = [inflight EXCEPT ![c] = [failed EXCEPT !.pc = "raised"]]
                /\ result' = Raise("get_connection", c, outcome.type, "connect")

\* line 29 and the next turn of the loop; line 32 when the range is used up
Sleep(c) ==
    /\ inflight[c].pc = "sleep"
    /\ TablesUnchanged
    /\ LET call == inflight[c]
           slept == [call EXCEPT !.slept = Append(call.slept, RetryDelay(call.attempt))]
       IN  IF call.attempt + 1 < max_retries
           THEN /\ inflight' = [inflight EXCEPT
                                   ![c] = [slept EXCEPT !.attempt = call.attempt + 1,
                                                        !.pc = "connect"]]
                /\ UNCHANGED result
           ELSE /\ inflight' = [inflight EXCEPT ![c] = [slept EXCEPT !.pc = "none"]]
                /\ result' = Ok("get_connection", c, -1)

InitConnection ==
    /\ projects = EmptyTable
    /\ partners = EmptyTable
    /\ partner_tiers = EmptyTable
    /\ partner_tier_assignments = EmptyTable
    /\ distributions = EmptyTable
    /\ operation_logs = <<>>
    /\ sqlite_sequence = [projects |-> 0, partners |-> 0, partner_tiers |-> 0,
                          partner_tier_assignments |-> 0, distributions |-> 0]
    /\ result = NoResult
    /\ inflight = [c \in Callers |-> NoConnection]

ConnectionCall == \E c \in Callers : GetConnection(c)
ConnectionConnect(c) == \E outcome \in ConnectOutcomes : Connect(c, outcome)
ConnectionAttempt == \E c \in Callers : ConnectionConnect(c)
ConnectionSleep == \E c \in Callers : Sleep(c)

NextConnection ==
    \/ ConnectionCall
    \/ ConnectionAttempt
    \/ ConnectionSleep

\* sqlite3.connect and the PRAGMA statements return or raise (the busy
\* timeout is 10 s) and time.sleep returns: a call that is under way moves on
SpecConnection ==
    /\ InitConnection
    /\ [][NextConnection]_vars
    /\ \A c \in Callers : WF_vars(ConnectionConnect(c)) /\ WF_vars(Sleep(c))

(***************************************************************************)
(* _update_project_total on its own, inside the transaction of an          *)
(* operation: the tables are as the INSERT, UPDATE or DELETE in front of   *)
(* it leaves them, with the total and the shares of the state before.      *)
(***************************************************************************)
RecomputeInvestments == {0, 100, 300}
StaleShares == {RZero, R(50)}
StaleTotals == {0, 100}

InitRecompute ==
    \E n \in 1..MaxSnapshotPartners :
    \E investment \in [1..n -> RecomputeInvestments], share \in [1..n -> StaleShares] :
    \E total_investment \in StaleTotals :
        /\ projects = Insert(EmptyTable, 1, [name |-> <<"S">>,
                                             total_investment |-> total_investment])
        /\ partners = [p \in 1..n |->
                          [project_id |-> 1, name |-> <<"A">>,
                           investment |-> investment[p],
                           share_percentage |-> share[p],
                           contact_info |-> <<>>, notes |-> <<>>]]
        /\ partner_tiers = EmptyTable
        /\ partner_tier_assignments = EmptyTable
        /\ distributions = EmptyTable
        /\ operation_logs = <<>>
        /\ sqlite_sequence = [projects |-> 1, partners |-> n, partner_tiers |-> 0,
                              partner_tier_assignments |-> 0, distributions |-> 0]
        /\ result = NoResult
        /\ inflight = NoCalls

\* _update_project_total(conn, project_id); the value is 2 when the run
\* follows a run for the same project directly
RecomputeShares(project_id) ==
    LET updated == UpdateProjectTotal(projects, partners, project_id)
        again == result.op = "_update_project_total" /\ result.arg = project_id
    IN  /\ projects' = updated.projects
        /\ partners' = updated.partners
        /\ result' = Ok("_update_project_total", project_id, IF again THEN 2 ELSE 1)
        /\ UNCHANGED <<partner_tiers, partner_tier_assignments, distributions,
                       operation_logs, sqlite_sequence, inflight>>

\* `UPDATE partners SET investment = ? WHERE id = ?` of update_partner
WriteInvestment(partner_id, investment) ==
    /\ partner_id \in DOMAIN partners
    /\ partners' = [partners EXCEPT ![partner_id].investment = investment]
    /\ result' = Ok("update_partner", partner_id, 0)
    /\ UNCHANGED <<projects, partner_tiers, partner_tier_assignments, distributions,
                   operation_logs, sqlite_sequence, inflight>>

\* `DELETE FROM partners WHERE id = ?` of delete_partner
DeleteRow(partner_id) ==
    /\ partner_id \in DOMAIN partners
    /\ partners' = Delete(partners, {partner_id})
    /\ result' = Ok("delete_partner", partner_id, 0)
    /\ UNCHANGED <<projects, partner_tiers, partner_tier_assignments, distributions,
                   operation_logs, sqlite_sequence, inflight>>

RecomputeCall == \E project_id \in 1..2 : RecomputeShares(project_id)
WriteInvestmentCall ==
    \E partner_id \in 1..MaxSnapshotPartners, investment \in RecomputeInvestments :
        WriteInvestment(partner_id, investment)
DeleteRowCall == \E partner_id \in 1..MaxSnapshotPartners : DeleteRow(partner_id)

NextRecompute ==
    \/ RecomputeCall
    \/ WriteInvestmentCall
    \/ DeleteRowCall

SpecRecompute == InitRecompute /\ [][NextRecompute]_vars

(***************************************************************************)
(* Properties of the partner ledger (checked under Spec).                  *)
(***************************************************************************)
PartnerCount(pid) == Cardinality(ProjectPartners(partners, pid))
InvestmentSum(pid) == SumInvestment(partners, ProjectPartners(partners, pid))

RECURSIVE ShareSum(_)
ShareSum(ids) ==
    IF ids = {} THEN RZero
    ELSE LET i == CHOOSE j \in ids : TRUE
         IN  RAdd(partners[i].share_percentage, ShareSum(ids \ {i}))

\* C1: in every state reached by addPartner / updatePartner / deletePartner
\* calls, successful or failed, every partner of a project whose investments
\* sum to more than 0 has share_percentage = investment / total * 100 and the
\* shares of the project sum to 100; in any other project every share is 0.
SharesFollowInvestments ==
    \A pid \in DOMAIN projects :
        LET ids == ProjectPartners(partners, pid)
            total == InvestmentSum(pid)
        IN  IF total > 0
            THEN /\ \A i \in ids :
                       partners[i].share_percentage = Frac(partners[i].investment * 100, total)
                 /\ ShareSum(ids) = R(100)
            ELSE \A i \in ids : partners[i].share_percentage = RZero

\* an update has left a project with two partners holding unequal shares
WitnessSharesFollowInvestments ==
    /\ result.op = "update_partner"
    /\ result.status = "ok"
    /\ \E i, j \in DOMAIN partners :
          /\ i # j
          /\ partners[i].project_id = partners[j].project_id
          /\ partners[i].investment > 0
          /\ RLt(partners[i].share_percentage, partners[j].share_percentage)

\* C2: every project's stored total_investment is the sum of the investments
\* of the partners it currently has (0 when it has none).
TotalIsSumOfInvestments ==
    \A pid \in DOMAIN projects : projects[pid].total_investment = InvestmentSum(pid)

\* a deletion has lowered a total that is still positive
WitnessTotalIsSumOfInvestments ==
    /\ result.op = "delete_partner"
    /\ result.status = "ok"
    /\ \E pid \in DOMAIN projects :
          /\ PartnerCount(pid) >= 1
          /\ projects[pid].total_investment > 0

\* C3: deletePartner on the only partner of a project fails with a
\* validation error and leaves the partners, the projects' totals, the
\* shares and the audit log unchanged; no deletePartner call leaves a project
\* that had partners without one.
LastPartnerIsKept ==
    [][result'.op = "delete_partner" =>
          /\ \A id \in DOMAIN partners :
                (result'.arg = id /\ PartnerCount(partners[id].project_id) = 1) =>
                    /\ result'.status = "ValueError"
                    /\ UNCHANGED <<partners, projects, operation_logs>>
          /\ \A pid \in DOMAIN projects :
                ProjectPartners(partners, pid) # {} =>
                    ProjectPartners(partners', pid) # {}]_vars

\* a deletion of a project's only partner has been refused
WitnessLastPartnerIsKept ==
    /\ result.op = "delete_partner"
    /\ result.status = "ValueError"
    /\ result.arg \in DOMAIN partners
    /\ PartnerCount(partners[result.arg].project_id) = 1

\* what the ledger operations must refuse
WhiteOnly(name) == \A i \in 1..Len(name) : name[i] = " "
NotAnAmount(x) == x.kind # "num" \/ x.v < 0
LedgerUnchanged == UNCHANGED <<projects, partners, operation_logs, sqlite_sequence>>

\* C13: addPartner fails with a validation error when the name is empty or
\* whitespace-only, or when the investment is missing, non-numeric or
\* negative, and such a failure inserts no partner, changes no share and no
\* total_investment and appends no audit entry; a successful addPartner adds
\* exactly one partner, to the given project, and returns its new id.
AddPartnerValidates ==
    [][result'.op = "add_partner" =>
          /\ IF result'.status = "ValueError"
             THEN result'.raised_at = "validate"
             ELSE \* no call with one of these faults has another outcome
                  \A name \in Names, investment \in Investments :
                      (WhiteOnly(name) \/ NotAnAmount(investment)) =>
                          ~AddPartner(result'.arg, name, investment, <<>>, <<>>)
          /\ result'.status # "ok" => LedgerUnchanged
          /\ result'.status = "ok" =>
                LET id == result'.value
                IN  /\ id \notin DOMAIN partners
                    /\ DOMAIN partners' = DOMAIN partners \cup {id}
                    /\ partners'[id].project_id = result'.arg
                    /\ \A i \in DOMAIN partners :
                          /\ partners'[i].project_id = partners[i].project_id
                          /\ partners'[i].investment = partners[i].investment]_vars

\* an addPartner call has been refused on a project that has partners
WitnessAddPartnerValidates ==
    /\ result.op = "add_partner"
    /\ result.status = "ValueError"
    /\ result.arg \in DOMAIN projects
    /\ PartnerCount(result.arg) >= 2
    /\ projects[result.arg].total_investment > 0

\* C14: updatePartner fails with a not-found error when the partner id does
\* not exist and with a validation error when a supplied name is empty or
\* whitespace-only or a supplied investment is non-numeric or negative; such
\* a failure changes no field of any partner, no share, no total_investment
\* and no audit entry, even when the other supplied field is valid.
UpdatePartnerValidates ==
    [][result'.op = "update_partner" =>
          IF result'.arg \notin DOMAIN partners
          THEN /\ result'.status = "ValueError"
               /\ result'.raised_at = "lookup"
               /\ LedgerUnchanged
          ELSE /\ IF result'.status = "ValueError"
                  THEN result'.raised_at = "validate"
                  ELSE \* no call with one of these faults has another outcome
                       \A name \in Names \cup {NoText}, investment \in Investments :
                           (\/ name # NoText /\ WhiteOnly(name)
                            \/ investment.kind # "none" /\ NotAnAmount(investment)) =>
                               ~UpdatePartner(result'.arg, name, investment, NoText,
                                              NoText)
               /\ result'.status # "ok" => LedgerUnchanged]_vars

\* an update of an existing partner of a funded project has been refused
WitnessUpdatePartnerValidates ==
    /\ result.op = "update_partner"
    /\ result.status = "ValueError"
    /\ result.raised_at = "validate"
    /\ result.arg \in DOMAIN partners
    /\ partners[result.arg].investment > 0

\* C15 as stated: deletePartner with a partner id that does not exist fails
\* with a not-found error and does not report success.
DeleteMissingPartnerFails ==
    [][(result'.op = "delete_partner" /\ result'.arg \notin DOMAIN partners)
          => result'.status # "ok"]_vars

\* the four fields of a partner that update_partner can be handed
Fields(partner) ==
    <<partner.name, partner.investment, partner.contact_info, partner.notes>>

\* C16: a successful updatePartner changes only the fields that were
\* supplied (each to its stripped or converted value): every unsupplied
\* field of the partner keeps its value, the project, name, investment,
\* contact info and notes of every other partner are unchanged, and a call
\* supplying no field changes nothing at all (no table, no audit entry).
UpdateTouchesSuppliedFieldsOnly ==
    [][(result'.op = "update_partner" /\ result'.status = "ok") =>
          \A name \in UpdateNames, investment \in UpdateInvestments,
             contact_info \in UpdateContacts, notes \in UpdateNotes :
              UpdatePartner(result'.arg, name, investment, contact_info, notes) =>
                  LET old == partners[result'.arg]
                      new == partners'[result'.arg]
                  IN  /\ DOMAIN partners' = DOMAIN partners
                      /\ new.project_id = old.project_id
                      /\ new.name = IF name = NoText THEN old.name ELSE <<"B">>
                      /\ new.investment =
                            IF investment = None THEN old.investment ELSE investment.v
                      /\ new.contact_info =
                            IF contact_info = NoText THEN old.contact_info ELSE <<"d">>
                      /\ new.notes = IF notes = NoText THEN old.notes ELSE <<>>
                      /\ \A other \in DOMAIN partners \ {result'.arg} :
                            /\ Fields(partners'[other]) = Fields(partners[other])
                            /\ partners'[other].project_id = partners[other].project_id
                      /\ (/\ name = NoText
                          /\ investment = None
                          /\ contact_info = NoText
                          /\ notes = NoText)
                         => UNCHANGED <<projects, partners, partner_tiers,
                                        partner_tier_assignments, distributions,
                                        operation_logs, sqlite_sequence>>]_vars

\* an update has set the investment of a partner whose name, contact info
\* and notes are still what add_partner stored
WitnessUpdateTouchesSuppliedFieldsOnly ==
    /\ result.op = "update_partner"
    /\ result.status = "ok"
    /\ operation_logs[Len(operation_logs)].operation_type = "UPDATE_PARTNER"
    /\ \E p \in DOMAIN partners :
          /\ partners[p].investment = 200
          /\ partners[p].name = <<"A">>
          /\ partners[p].contact_info = <<"c">>
          /\ partners[p].notes = <<"c">>

\* C4 as stated: every existing project has at least one partner.
EveryProjectHasAPartner ==
    \A pid \in DOMAIN projects : ProjectPartners(partners, pid) # {}

\* C4, amended: a project that has a partner keeps at least one partner for
\* as long as the project exists (create_project leaves a project without
\* partners until the first add_partner).
ProjectKeepsAPartner ==
    [][\A pid \in DOMAIN projects \cap DOMAIN projects' :
          ProjectPartners(partners, pid) # {} => ProjectPartners(partners', pid) # {}]_vars

\* a partner has been deleted from a project that is down to its last one
WitnessProjectKeepsAPartner ==
    /\ result.op = "delete_partner"
    /\ result.status = "ok"
    /\ \E pid \in DOMAIN projects : PartnerCount(pid) = 1

(***************************************************************************)
(* Properties of the distribution engine (checked under SpecDistribution). *)
(* A step that ends a successful calculation is read with the tables of    *)
(* its first state, which the calculation reads, and the outcome of its    *)
(* second state.                                                           *)
(***************************************************************************)
Calculated(r) == r.op = "calculate_distribution" /\ r.status = "ok"

\* positions of the items of one type that name one partner
ItemsOf(details, type, p) ==
    {i \in 1..Len(details) : details[i].type = type /\ details[i].partner_id = p}

ItemsOfType(details, type) == {i \in 1..Len(details) : details[i].type = type}

RECURSIVE AmountOfType(_, _)
AmountOfType(details, type) ==
    IF details = <<>> THEN RZero
    ELSE IF details[1].type = type
    THEN RAdd(details[1].amount, AmountOfType(Tail(details), type))
    ELSE AmountOfType(Tail(details), type)

\* the tiers a partner is assigned to (at most one)
AssignedTiers(p) ==
    {partner_tiers[partner_tier_assignments[a].tier_id] :
        a \in {b \in DOMAIN partner_tier_assignments :
                  partner_tier_assignments[b].partner_id = p}}

AssignedShares(p) ==
    {partner_tier_assignments[a].distribution_share :
        a \in {b \in DOMAIN partner_tier_assignments :
                  partner_tier_assignments[b].partner_id = p}}

StageRank(type) ==
    CASE type = "management_fee" -> 1
      [] type = "return_of_capital" -> 2
      [] OTHER -> 3

\* C5: a successful calculateDistribution adds exactly one Distribution
\* record, of the project, holding the requested amount and the line items
\* in stage order (management fees, then capital returns, then carry), and
\* appends exactly one audit-log entry; nothing else is written.
DistributionIsRecorded ==
    [][Calculated(result') =>
          LET id == result'.value
              pid == result'.arg
              details == result'.details
          IN  /\ id \notin DOMAIN distributions
              /\ DOMAIN distributions' = DOMAIN distributions \cup {id}
              /\ \A d \in DOMAIN distributions : distributions'[d] = distributions[d]
              /\ distributions'[id] = [project_id |-> pid,
                                       total_amount |-> result'.amount,
                                       details |-> details]
              /\ \A i, j \in 1..Len(details) :
                    i < j => StageRank(details[i].type) <= StageRank(details[j].type)
              /\ operation_logs' =
                    Append(operation_logs,
                           [project_id |-> pid,
                            operation_type |-> "CALCULATE_DISTRIBUTION"])
              /\ UNCHANGED <<projects, partners, partner_tiers,
                             partner_tier_assignments>>]_vars

\* a recorded distribution with items of all three stages
WitnessDistributionIsRecorded ==
    /\ Calculated(result)
    /\ result.value \in DOMAIN distributions
    /\ \A type \in {"management_fee", "return_of_capital", "performance_fee"} :
          ItemsOfType(distributions[result.value].details, type) # {}

\* C6 as stated: a calculateDistribution call with an amount <= 0 or with the
\* id of a project that does not exist fails with a validation error before
\* stage 1 and persists neither a Distribution record nor an audit entry.
BadRequestFailsBeforeStageOne ==
    [][(/\ result'.op \in {"calculate_distribution", "handle_distribution"}
        /\ result' # result
        /\ \/ result'.status = "ok" /\ result'.amount <= 0
           \/ result'.arg \notin DOMAIN projects
           \/ result'.op = "handle_distribution")
       => /\ result'.status \in {"ValueError", "InvalidProjectId"}
          /\ result'.raised_at \in {"validate", "route"}
          /\ UNCHANGED <<distributions, operation_logs>>]_vars

\* C7: a calculateDistribution call either succeeds and makes exactly one
\* new Distribution record and one new audit entry visible, or fails and
\* leaves the Distribution records and the audit log as they were.
DistributionIsAllOrNothing ==
    [][result'.op \in {"calculate_distribution", "handle_distribution"} =>
          \/ /\ result'.status = "ok"
             /\ DOMAIN distributions \subseteq DOMAIN distributions'
             /\ Cardinality(DOMAIN distributions' \ DOMAIN distributions) = 1
             /\ \A d \in DOMAIN distributions : distributions'[d] = distributions[d]
             /\ Len(operation_logs') = Len(operation_logs) + 1
             /\ SubSeq(operation_logs', 1, Len(operation_logs)) = operation_logs
          \/ /\ result'.status # "ok"
             /\ UNCHANGED <<distributions, operation_logs>>]_vars

\* a call has failed at the INSERT after an earlier call had succeeded
WitnessDistributionIsAllOrNothing ==
    /\ result.op = "calculate_distribution"
    /\ result.status = "IntegrityError"
    /\ DOMAIN distributions # {}

\* "GP" in the name, in any mix of upper and lower case
NamesGP(name) ==
    \E i \in 1..(Len(name) - 1) : name[i] \in {"G", "g"} /\ name[i + 1] \in {"P", "p"}

\* the management fee rates a partner's tier charges it
FeeRates(p) ==
    {t.management_fee_rate : t \in {u \in AssignedTiers(p) :
                                       NamesGP(u.tier_name) /\ u.management_fee_rate > 0}}

\* C8: stage 1 produces, for every partner whose tier name contains "GP" in
\* any case and whose tier has management_fee_rate > 0, exactly one
\* management_fee item of distributionAmount * rate / 100, computed on the
\* original amount, and none for any other partner; managementFee is the
\* sum of these items and stage 2 starts from distributionAmount -
\* managementFee.
ManagementFeesAreCharged ==
    [][Calculated(result') =>
          LET pid == result'.arg
              amount == result'.amount
              details == result'.details
          IN  /\ \A i \in ItemsOfType(details, "management_fee") :
                    details[i].partner_id \in ProjectPartners(partners, pid)
              /\ \A p \in ProjectPartners(partners, pid) :
                    LET mine == ItemsOf(details, "management_fee", p)
                    IN  IF FeeRates(p) # {}
                        THEN /\ Cardinality(mine) = 1
                             /\ \A i \in mine : \A rate \in FeeRates(p) :
                                   details[i].amount = Frac(amount * rate, 100)
                        ELSE mine = {}
              /\ result'.management_fee = AmountOfType(details, "management_fee")
              /\ RAdd(result'.remaining_amount, AmountOfType(details, "return_of_capital"))
                    = RSub(R(amount), result'.management_fee)]_vars

\* two partners have each been charged a fee on the full amount
WitnessManagementFeesAreCharged ==
    /\ Calculated(result)
    /\ result.amount > 0
    /\ Cardinality(ItemsOfType(result.details, "management_fee")) >= 2
    /\ \E i \in ItemsOfType(result.details, "management_fee") :
          result.details[i].tier # <<"G", "P">>

\* C9: with total_investment > 0, stage 2 returns min(remaining after fees,
\* total_investment); if that is positive every partner with investment > 0,
\* and no other, gets one return_of_capital item of returnOfCapital *
\* investment / total_investment and remaining drops by returnOfCapital;
\* with total_investment = 0 or returnOfCapital <= 0 there is no such item
\* and remaining is unchanged.
CapitalIsReturned ==
    [][Calculated(result') =>
          LET pid == result'.arg
              details == result'.details
              total == projects[pid].total_investment
              base == RSub(R(result'.amount), result'.management_fee)
              capital == IF RLt(base, R(total)) THEN base ELSE R(total)
          IN  /\ \A i \in ItemsOfType(details, "return_of_capital") :
                    details[i].partner_id \in ProjectPartners(partners, pid)
              /\ IF total > 0 /\ RLt(RZero, capital)
                 THEN /\ \A p \in ProjectPartners(partners, pid) :
                            LET mine == ItemsOf(details, "return_of_capital", p)
                            IN  IF partners[p].investment > 0
                                THEN /\ Cardinality(mine) = 1
                                     /\ \A i \in mine :
                                           details[i].amount =
                                              Frac(capital[1] * partners[p].investment,
                                                   capital[2] * total)
                                ELSE mine = {}
                      /\ result'.remaining_amount = RSub(base, capital)
                 ELSE /\ ItemsOfType(details, "return_of_capital") = {}
                      /\ result'.remaining_amount = base]_vars

\* the whole capital has been returned to two partners and money is left
WitnessCapitalIsReturned ==
    /\ Calculated(result)
    /\ Cardinality(ItemsOfType(result.details, "return_of_capital")) >= 2
    /\ RLt(RZero, result.remaining_amount)
    /\ RLt(RZero, result.management_fee)

\* the carry weight of a partner by the first rule that matches
CarryWeight(p, total) ==
    LET rates == {t.performance_fee_rate : t \in AssignedTiers(p)}
        shares == AssignedShares(p)
    IN  IF \E r \in rates : r > 0
        THEN Frac(CHOOSE r \in rates : r > 0, 100)
        ELSE IF \E d \in shares : d > 0
        THEN Frac(CHOOSE d \in shares : d > 0, 100)
        ELSE IF partners[p].investment > 0
        THEN Frac(partners[p].investment, total)
        ELSE RZero

RECURSIVE WeightSum(_, _)
WeightSum(ps, total) ==
    IF ps = {} THEN RZero
    ELSE LET p == CHOOSE q \in ps : TRUE
         IN  RAdd(CarryWeight(p, total), WeightSum(ps \ {p}, total))

\* C10: stage 3 runs only when remaining > 0 after stage 2; a partner's
\* weight is performance_fee_rate/100 if that rate is > 0, else
\* distribution_share/100 if that share is > 0, else investment /
\* total_investment if its investment is > 0; every partner with a weight
\* gets exactly one performance_fee item of remaining * weight / (sum of the
\* weights) and a partner matching no rule gets none.
CarryFollowsFirstRule ==
    [][Calculated(result') =>
          LET pid == result'.arg
              details == result'.details
              total == projects[pid].total_investment
              remaining == result'.remaining_amount
              ps == ProjectPartners(partners, pid)
              sum == WeightSum(ps, total)
          IN  /\ \A i \in ItemsOfType(details, "performance_fee") :
                    details[i].partner_id \in ps
              /\ IF RLt(RZero, remaining)
                 THEN \A p \in ps :
                         LET mine == ItemsOf(details, "performance_fee", p)
                             weight == CarryWeight(p, total)
                         IN  IF weight # RZero
                             THEN /\ Cardinality(mine) = 1
                                  /\ \A i \in mine :
                                        details[i].amount =
                                           RDiv(RMul(remaining, weight), sum)
                             ELSE mine = {}
                 ELSE ItemsOfType(details, "performance_fee") = {}]_vars

\* carry has been shared by a partner whose tier has a performance fee rate
\* and a distribution_share, and a partner weighted by its investment
WitnessCarryFollowsFirstRule ==
    /\ Calculated(result)
    /\ Cardinality(ItemsOfType(result.details, "performance_fee")) >= 2
    /\ \E p, q \in ProjectPartners(partners, result.arg) :
          /\ \E t \in AssignedTiers(p) : t.performance_fee_rate > 0
          /\ \E d \in AssignedShares(p) : d > 0
          /\ AssignedTiers(q) = {}
          /\ partners[q].investment > 0

RECURSIVE LineItemTotal(_)
LineItemTotal(details) ==
    IF details = <<>> THEN RZero
    ELSE RAdd(details[Len(details)].amount,
              LineItemTotal(SubSeq(details, 1, Len(details) - 1)))

ScenarioTables(pid, a, b) ==
    /\ ProjectPartners(partners, pid) = {a, b}
    /\ a < b
    /\ partners[a].name = Alice /\ partners[a].investment = 600
    /\ partners[b].name = Bob /\ partners[b].investment = 400
    /\ \E t \in DOMAIN partner_tiers :
          /\ {u \in DOMAIN partner_tiers : partner_tiers[u].project_id = pid} = {t}
          /\ partner_tiers[t].tier_name = <<"G", "P">>
          /\ partner_tiers[t].management_fee_rate = 5
          /\ \E x \in DOMAIN partner_tier_assignments :
                /\ {y \in DOMAIN partner_tier_assignments :
                       partner_tier_assignments[y].partner_id \in {a, b}} = {x}
                /\ partner_tier_assignments[x] =
                      [partner_id |-> a, tier_id |-> t, commitment_amount |-> 0,
                       distribution_share |-> 0]

ScenarioCalculated(pid, a, b) ==
    /\ pid \in DOMAIN projects
    /\ a \in DOMAIN partners
    /\ b \in DOMAIN partners
    /\ ScenarioTables(pid, a, b)
    /\ Calculated(result)
    /\ result.arg = pid
    /\ result.amount = ScenarioAmount

LineOf(item) == <<item.type, item.partner_id, item.amount>>

\* C12 as stated: after the scenario the project has total_investment 1000
\* and shares 60/40, and calculateDistribution(500) yields managementFee 25,
\* remaining 0 and exactly the line items management_fee 25 to Alice,
\* return_of_capital 285 to Alice, return_of_capital 190 to Bob, in that
\* order, with no performance_fee item.
ScenarioYieldsAliceThenBob ==
    \A pid \in DOMAIN projects : \A a, b \in DOMAIN partners :
        ScenarioCalculated(pid, a, b) =>
            /\ projects[pid].total_investment = 1000
            /\ partners[a].share_percentage = R(60)
            /\ partners[b].share_percentage = R(40)
            /\ result.management_fee = R(25)
            /\ result.remaining_amount = RZero
            /\ [i \in 1..Len(result.details) |-> LineOf(result.details[i])]
                  = << <<"management_fee", a, R(25)>>,
                       <<"return_of_capital", a, R(285)>>,
                       <<"return_of_capital", b, R(190)>> >>

(***************************************************************************)
(* Properties of the tier registry (checked under SpecTiers).  The         *)
(* operation of a step is the one its outcome names; the arguments the     *)
(* outcome does not name are those of every call that makes the step.      *)
(***************************************************************************)
AssignmentsIn(assignments, p) ==
    {a \in DOMAIN assignments : assignments[a].partner_id = p}
ReferencesIn(assignments, t) ==
    {a \in DOMAIN assignments : assignments[a].tier_id = t}

\* C17: deleteTier on a tier referenced by at least one TierAssignment fails
\* with an error carrying the number of assignments and leaves the tier, all
\* assignments and the audit log unchanged; deleteTier deletes a tier only
\* when no assignment references it, and then only the tier it was given.
ReferencedTierIsKept ==
    [][result'.op = "delete_tier" =>
          LET refs == ReferencesIn(partner_tier_assignments, result'.arg)
          IN  /\ (result'.arg \in DOMAIN partner_tiers /\ refs # {}) =>
                    /\ result'.status = "ValueError"
                    /\ result'.value = Cardinality(refs)
                    /\ UNCHANGED <<partner_tiers, partner_tier_assignments,
                                   operation_logs>>
              /\ \A t \in DOMAIN partner_tiers \ DOMAIN partner_tiers' :
                    /\ t = result'.arg
                    /\ ReferencesIn(partner_tier_assignments, t) = {}]_vars

\* the deletion of a tier that two partners are assigned to has been refused
WitnessReferencedTierIsKept ==
    /\ result.op = "delete_tier"
    /\ result.status = "ValueError"
    /\ result.value = 2
    /\ Cardinality(ReferencesIn(partner_tier_assignments, result.arg)) = 2

\* C18: after any sequence of assignPartnerToTier calls every partner has at
\* most one TierAssignment; assigning a partner that has one replaces the
\* tier id, commitment_amount and distribution_share of that assignment in
\* place, and assigning a partner that has none adds exactly one.
AssignmentIsUpsert ==
    [][/\ \A p \in DOMAIN partners' :
             Cardinality(AssignmentsIn(partner_tier_assignments', p)) <= 1
       /\ (result'.op = "assign_partner_to_tier" /\ result'.status = "ok") =>
             \A request \in AssignRequests :
                 AssignPartnerToTier(result'.arg, result'.value, request[1], request[2]) =>
                     LET old == AssignmentsIn(partner_tier_assignments, result'.arg)
                         new == AssignmentsIn(partner_tier_assignments', result'.arg)
                         row == [partner_id |-> result'.arg, tier_id |-> result'.value,
                                 commitment_amount |-> request[1].v,
                                 distribution_share |-> request[2].v]
                     IN  /\ old # {} => new = old
                         /\ old = {} =>
                               /\ new \cap DOMAIN partner_tier_assignments = {}
                               /\ DOMAIN partner_tier_assignments' =
                                     DOMAIN partner_tier_assignments \cup new
                         /\ \A a \in new : partner_tier_assignments'[a] = row
                         /\ \A a \in DOMAIN partner_tier_assignments \ old :
                               partner_tier_assignments'[a] = partner_tier_assignments[a]]_vars

\* a partner has been assigned twice and its one assignment holds the tier,
\* the commitment and the share of the second call
WitnessAssignmentIsUpsert ==
    /\ result.op = "assign_partner_to_tier"
    /\ result.status = "ok"
    /\ Len(SelectSeq(operation_logs, LAMBDA e : e.operation_type = "ASSIGN_TIER")) = 2
    /\ DOMAIN partner_tier_assignments = {1}
    /\ partner_tier_assignments[1] =
          [partner_id |-> result.arg, tier_id |-> 2, commitment_amount |-> 0,
           distribution_share |-> 0]

\* what assign_partner_to_tier must refuse
BadAssignment(partner_id, tier_id, commitment_amount, distribution_share) ==
    \/ commitment_amount.kind = "num" /\ commitment_amount.v < 0
    \/ distribution_share.kind # "num"
    \/ distribution_share.v < 0
    \/ distribution_share.v > 100
    \/ partner_id \notin DOMAIN partners
    \/ tier_id \notin DOMAIN partner_tiers
    \/ partners[partner_id].project_id # partner_tiers[tier_id].project_id

\* C19: assignPartnerToTier fails, creating or changing no assignment and
\* appending no audit entry, when commitmentAmount is negative, when
\* distributionShare is outside [0,100], when the partner or the tier does
\* not exist, or when the partner's project differs from the tier's project;
\* every stored assignment links a partner and a tier of the same project.
AssignmentIsValidated ==
    [][/\ result'.op = "assign_partner_to_tier" =>
             IF result'.status = "ok"
             THEN \* no call that succeeds had one of these faults
                  \A request \in AssignRequests :
                      AssignPartnerToTier(result'.arg, result'.value, request[1],
                                          request[2]) =>
                          ~BadAssignment(result'.arg, result'.value, request[1],
                                         request[2])
             ELSE /\ result'.status = "ValueError"
                  /\ UNCHANGED <<partner_tier_assignments, operation_logs,
                                 partner_tiers, partners, sqlite_sequence>>
       /\ \A a \in DOMAIN partner_tier_assignments' :
             LET row == partner_tier_assignments'[a]
             IN  /\ row.partner_id \in DOMAIN partners'
                 /\ row.tier_id \in DOMAIN partner_tiers'
                 /\ partners'[row.partner_id].project_id =
                       partner_tiers'[row.tier_id].project_id]_vars

\* an assignment across projects has been refused after another partner had
\* been assigned
WitnessAssignmentIsValidated ==
    /\ result.op = "assign_partner_to_tier"
    /\ result.status = "ValueError"
    /\ result.raised_at = "project"
    /\ partner_tier_assignments # EmptyTable
    /\ AssignmentsIn(partner_tier_assignments, result.arg) = {}

\* what updateTier must refuse
BadTierUpdate(request) ==
    \/ request[1] # NoText /\ WhiteOnly(request[1])
    \/ \E i \in {2, 3} :
          /\ request[i].kind # "none"
          /\ (request[i].kind # "num" \/ request[i].v < 0 \/ request[i].v > 100)
    \/ /\ request[4].kind # "none"
       /\ (request[4].kind # "num" \/ request[4].v < 0)

\* C20 as stated: updateTier fails with a validation error, leaving every
\* field of the tier and the audit log unchanged, when the supplied name is
\* empty or whitespace-only, when a supplied management or performance fee
\* rate is outside [0,100], or when the supplied priority is negative or not
\* an integer.
TierUpdateIsValidated ==
    [][(result'.op = "update_partner_tier" /\ result'.arg \in DOMAIN partner_tiers) =>
          \A request \in UpdateTierRequests :
              BadTierUpdate(request) =>
                  (UpdatePartnerTier(result'.arg, request[1], request[2], request[3],
                                     request[4]) =>
                      /\ result'.status = "ValueError"
                      /\ UNCHANGED <<partner_tiers, operation_logs>>)]_vars

(***************************************************************************)
(* Properties of the ledger, the registry and the engine together (checked *)
(* under SpecEngine).                                                      *)
(***************************************************************************)
\* C21 as stated: in every reachable state every stored tier has a
\* management_fee_rate within [0,100], a performance_fee_rate within [0,100]
\* and a non-negative priority, whatever createTier and updateTier calls
\* produced it.
StoredTiersAreInRange ==
    \A t \in DOMAIN partner_tiers :
        /\ partner_tiers[t].management_fee_rate >= 0
        /\ partner_tiers[t].management_fee_rate <= 100
        /\ partner_tiers[t].performance_fee_rate >= 0
        /\ partner_tiers[t].performance_fee_rate <= 100
        /\ partner_tiers[t].priority >= 0

TierAndEngineCalls ==
    {"handle_project_tiers", "create_partner_tier", "update_partner_tier", "delete_tier",
     "assign_partner_to_tier", "calculate_distribution"}

\* C29: calculateDistribution and the tier operations (createTier,
\* updateTier, deleteTier, assignPartnerToTier) never change the partner
\* ledger: the partners, every partner's investment and share_percentage and
\* every project's total_investment are the same after the call as before
\* it, whether the call succeeds or fails.
TierAndEngineCallsKeepTheLedger ==
    [][result'.op \in TierAndEngineCalls =>
          /\ DOMAIN partners' = DOMAIN partners
          /\ \A p \in DOMAIN partners :
                /\ partners'[p].investment = partners[p].investment
                /\ partners'[p].share_percentage = partners[p].share_percentage
                /\ partners'[p].project_id = partners[p].project_id
          /\ DOMAIN projects' = DOMAIN projects
          /\ \A pid \in DOMAIN projects :
                projects'[pid].total_investment = projects[pid].total_investment]_vars

\* the second partner has been assigned to a tier created with a rate of
\* 150 after a distribution was recorded, and the ledger still holds the
\* investments 600 and 400 with the shares 60 and 40
WitnessTierAndEngineCallsKeepTheLedger ==
    /\ result.op = "assign_partner_to_tier"
    /\ result.status = "ok"
    /\ result.arg = 2
    /\ result.value \in DOMAIN partner_tiers
    /\ partner_tiers[result.value].management_fee_rate = 150
    /\ distributions # EmptyTable
    /\ partners[1].share_percentage = R(60)
    /\ partners[2].share_percentage = R(40)
    /\ projects[1].total_investment = 1000

(***************************************************************************)
(* The stored total and the third stage (checked under Spec).              *)
(***************************************************************************)
\* C25: in every state the ledger operations reach, no partner has an
\* investment above 0 while the stored total_investment of its project is 0,
\* so the third stage of a calculation on the stored figures, which divides
\* a partner's investment by that total, never divides by zero.
StoredTotalCoversInvestments ==
    \A pid \in DOMAIN projects :
        /\ \A i \in ProjectPartners(partners, pid) :
              partners[i].investment > 0 => projects[pid].total_investment > 0
        /\ \A distribution_amount \in DistributionAmounts :
              ~Waterfall(PartnerRows(pid), projects[pid].total_investment,
                         distribution_amount).raises

\* a project holds a partner without investment next to one with investment,
\* after an operation that recomputed the total
WitnessStoredTotalCoversInvestments ==
    /\ result.status = "ok"
    /\ result.op \in {"add_partner", "update_partner", "delete_partner"}
    /\ \E pid \in DOMAIN projects :
          \E i, j \in ProjectPartners(partners, pid) :
              /\ partners[i].investment > 0
              /\ partners[j].investment = 0
              /\ projects[pid].total_investment = partners[i].investment

(***************************************************************************)
(* Properties of calls made at the same time (checked under                *)
(* SpecConcurrent).                                                        *)
(***************************************************************************)
\* C23 as stated: ledger mutations that run at the same time on one project
\* leave the state that some serial order of them leaves, so that every
\* project keeps at least one partner, its total_investment is the sum of
\* its partners' investments and the shares follow the investments.
InterleavedMutationsKeepTheLedger ==
    \A pid \in DOMAIN projects :
        /\ ProjectPartners(partners, pid) # {}
        /\ projects[pid].total_investment = InvestmentSum(pid)
        /\ \A i \in ProjectPartners(partners, pid) :
              partners[i].share_percentage =
                  IF InvestmentSum(pid) > 0
                  THEN Frac(partners[i].investment * 100, InvestmentSum(pid))
                  ELSE RZero

RECURSIVE RowInvestments(_)
RowInvestments(rows) ==
    IF rows = <<>> THEN 0 ELSE rows[1].investment + RowInvestments(Tail(rows))

\* C24 as stated: the total_investment a calculateDistribution call uses is
\* the sum of the investments of the partners it uses, also when a ledger
\* mutation of the project commits while the call runs.
CalculationReadsOneState ==
    \A c \in DOMAIN inflight :
        (inflight[c].op = "calculate_distribution" /\ inflight[c].pc = "insert") =>
            inflight[c].total_investment = RowInvestments(inflight[c].rows)

(***************************************************************************)
(* Properties of get_connection (checked under SpecConnection).            *)
(***************************************************************************)
\* the connects a call has made
Attempts(call) ==
    Len(call.errors) + (IF call.pc = "returned" THEN 1 ELSE 0)

BoundedRetry(call) ==
    /\ Attempts(call) <= 5
    /\ call.pc # "none"
    \* the k-th wait is 100 ms doubled k - 1 times, one wait per failed attempt
    /\ \A k \in 1..Len(call.slept) :
          call.slept[k] = IF k = 1 THEN 100 ELSE 2 * call.slept[k - 1]
    /\ Len(call.slept) = IF call.pc \in {"sleep", "raised"}
                         THEN Len(call.errors) - 1 ELSE Len(call.errors)
    \* only a locked database is retried
    /\ \A k \in 1..Len(call.errors) :
          (k < Len(call.errors) \/ call.pc \in {"sleep", "connect", "returned"})
              => call.errors[k].message = "database is locked"
    \* a locked database is surfaced after the fifth attempt only
    /\ (call.pc = "raised" /\ call.errors[Len(call.errors)].message = "database is locked")
          => Attempts(call) = 5
    /\ call.pc = "sleep" => Attempts(call) < 5

\* C26: a get_connection call makes at most 5 attempts, waits 100 ms before
\* the first retry and twice the previous wait before each further one,
\* raises a locked database only after its fifth attempt failed, raises any
\* other error at the attempt that met it, and every call under way ends by
\* returning the connection or raising.
RetryIsBoundedAndEnds ==
    /\ [](\A c \in DOMAIN inflight : BoundedRetry(inflight[c]))
    /\ \A c \in Callers :
          (inflight[c].pc \in {"connect", "sleep"})
              ~> (inflight[c].pc \in {"returned", "raised"})

\* a call has slept 100, 200, 400 and 800 ms and raised the locked database
\* at its fifth attempt, another has raised a different error at its first
WitnessRetryIsBoundedAndEnds ==
    \E c, d \in DOMAIN inflight :
        /\ inflight[c].pc = "raised"
        /\ inflight[c].slept = <<100, 200, 400, 800>>
        /\ Len(inflight[c].errors) = 5
        /\ inflight[d].pc = "raised"
        /\ Len(inflight[d].errors) = 1
        /\ inflight[d].slept = <<>>

(***************************************************************************)
(* Properties of _update_project_total (checked under SpecRecompute).      *)
(***************************************************************************)
\* C27: a run of the share recomputation that follows a run for the same
\* project, with no write to the ledger between the two, leaves the
\* project's total_investment and every partner's share_percentage as the
\* first run left them.
RecomputeIsIdempotent ==
    [][(/\ result.op = "_update_project_total"
        /\ result'.op = "_update_project_total"
        /\ result'.arg = result.arg)
          => (projects' = projects /\ partners' = partners)]_vars

\* a second run in a row on a project whose partners hold different shares
WitnessRecomputeIsIdempotent ==
    /\ result.op = "_update_project_total"
    /\ result.value = 2
    /\ result.arg \in DOMAIN projects
    /\ projects[result.arg].total_investment = 400
    /\ \E i, j \in ProjectPartners(partners, result.arg) :
          /\ partners[i].share_percentage = R(25)
          /\ partners[j].share_percentage = R(75)

(***************************************************************************)
(* Order of the line items (checked under SpecDistribution).               *)
(***************************************************************************)
TierPriorities(p) == {t.priority : t \in AssignedTiers(p)}

\* partner p is listed before partner q within a stage: by priority, then by
\* id, when both have a tier; by id when neither has one
ListedBefore(p, q) ==
    LET tp == TierPriorities(p)
        tq == TierPriorities(q)
    IN  IF tp # {} /\ tq # {}
        THEN \E a \in tp, b \in tq : a < b \/ (a = b /\ p < q)
        ELSE (tp = {} /\ tq = {}) => p < q

\* the rows of the project as they are read when the tiers have the
\* priorities `priority`
RowsUnderPriorities(project_id, priority) ==
    OrderRows({IF k[2] = 0 THEN JoinedRow(k)
               ELSE [JoinedRow(k) EXCEPT
                        !.priority =
                            Num(priority[partner_tier_assignments[k[2]].tier_id])]
               : k \in JoinedKeys(project_id)})

RECURSIVE Received(_, _, _)
Received(details, type, p) ==
    IF details = <<>> THEN RZero
    ELSE IF details[1].type = type /\ details[1].partner_id = p
    THEN RAdd(details[1].amount, Received(Tail(details), type, p))
    ELSE Received(Tail(details), type, p)

OtherPriorities == [DOMAIN partner_tiers -> 0..2]

LineItemsArePositiveAndCapped ==
    (/\ Calculated(result)
     /\ projects[result.arg].total_investment = InvestmentSum(result.arg))
        => LET details == result.details
           IN  /\ ~RLt(R(projects[result.arg].total_investment),
                       AmountOfType(details, "return_of_capital"))
               /\ \A p \in DOMAIN partners :
                     ~RLt(R(partners[p].investment),
                          Received(details, "return_of_capital", p))
               /\ \A i \in 1..Len(details) : RLt(RZero, details[i].amount)
====
